---- MODULE Spec2Model ----
(***************************************************************************)
(* A model of the Frontapp MCP server (src/src/index.ts): the catalog of   *)
(* tool descriptors, the switch of the tool call handler, the adapter      *)
(* methods that issue one HTTP request each, the catch that turns a        *)
(* failure into an error-flagged response, the resource read handler and   *)
(* the start and stop of the process.                                      *)
(*                                                                         *)
(* JavaScript values are modelled as follows.  A string is a TLA+ string.  *)
(* An object is a function from its keys to values; a key whose value is   *)
(* undefined is left out of the function, which is also what the HTTP      *)
(* client puts on the wire (undefined query parameters and undefined body  *)
(* members are not serialised).  The arguments of a tool call are a record *)
(* [present, fields]: present is FALSE when the request has no arguments   *)
(* object at all.                                                          *)
(***************************************************************************)
EXTENDS Integers, Sequences, FiniteSets, TLC

\* How far the key set of an input may be from the required fields of its
\* operation: the number of required fields left out plus the number of
\* optional or undeclared fields added.
MaxDeviation == 1

\* The number of values an enumerated property of an input is drawn from:
\* value i is the i-th declared value, and a value outside the enumeration
\* once the declared values are used up.  Every other property holds one
\* value, which names the property.
MaxVariant == 3

VARIABLES
  apiToken,   \* process.env.FRONTAPP_API_TOKEN ("" when it is not set)
  proc,       \* "init", "running", "closing" (SIGINT received), "exited"
  exitCode,   \* the status given to process.exit, -1 while the process runs
  calls       \* per client: the request it has in the server, if any

vars == <<apiToken, proc, exitCode, calls>>

\* The descriptors returned by the ListToolsRequestSchema handler, in source
\* order: name, declared property names and required property names
\* (index.ts:71-1838; the line of each descriptor is noted beside it).
Catalog ==
  <<
    [name |-> "list_conversations", properties |-> {"limit", "page_token", "q"}, required |-> {}],  \* :75
    [name |-> "get_conversation", properties |-> {"conversation_id"}, required |-> {"conversation_id"}],  \* :87
    [name |-> "search_conversations", properties |-> {"query", "limit"}, required |-> {"query"}],  \* :98
    [name |-> "update_conversation", properties |-> {"conversation_id", "assignee_id", "status", "tag_ids"}, required |-> {"conversation_id"}],  \* :110
    [name |-> "list_conversation_messages", properties |-> {"conversation_id", "limit", "page_token"}, required |-> {"conversation_id"}],  \* :126
    [name |-> "get_message", properties |-> {"message_id"}, required |-> {"message_id"}],  \* :139
    [name |-> "send_message", properties |-> {"channel_id", "to", "subject", "body", "text", "cc", "bcc", "tag_ids"}, required |-> {"channel_id", "to", "body"}],  \* :150
    [name |-> "reply_to_conversation", properties |-> {"conversation_id", "type", "body", "text", "author_id", "channel_id"}, required |-> {"conversation_id", "type", "body"}],  \* :168
    [name |-> "list_contacts", properties |-> {"limit", "page_token", "sort_by", "sort_order"}, required |-> {}],  \* :186
    [name |-> "get_contact", properties |-> {"contact_id"}, required |-> {"contact_id"}],  \* :199
    [name |-> "create_contact", properties |-> {"name", "description", "handles", "custom_fields"}, required |-> {"handles"}],  \* :210
    [name |-> "update_contact", properties |-> {"contact_id", "name", "description", "handles", "custom_fields"}, required |-> {"contact_id"}],  \* :234
    [name |-> "list_teammates", properties |-> {"limit", "page_token"}, required |-> {}],  \* :251
    [name |-> "get_teammate", properties |-> {"teammate_id"}, required |-> {"teammate_id"}],  \* :262
    [name |-> "list_tags", properties |-> {"limit", "page_token"}, required |-> {}],  \* :275
    [name |-> "create_tag", properties |-> {"name", "highlight", "is_private"}, required |-> {"name"}],  \* :286
    [name |-> "list_inboxes", properties |-> {"limit", "page_token"}, required |-> {}],  \* :305
    [name |-> "get_inbox", properties |-> {"inbox_id"}, required |-> {"inbox_id"}],  \* :316
    [name |-> "list_conversation_comments", properties |-> {"conversation_id"}, required |-> {"conversation_id"}],  \* :329
    [name |-> "add_comment", properties |-> {"conversation_id", "body", "author_id"}, required |-> {"conversation_id", "body"}],  \* :340
    [name |-> "get_analytics", properties |-> {"start", "end", "metrics", "filters"}, required |-> {"start", "end"}],  \* :355
    [name |-> "list_accounts", properties |-> {"limit", "page_token"}, required |-> {}],  \* :375
    [name |-> "create_account", properties |-> {"name", "description", "domains", "custom_fields"}, required |-> {"name"}],  \* :386
    [name |-> "get_account", properties |-> {"account_id"}, required |-> {"account_id"}],  \* :400
    [name |-> "update_account", properties |-> {"account_id", "name", "description", "domains", "custom_fields"}, required |-> {"account_id"}],  \* :411
    [name |-> "delete_account", properties |-> {"account_id"}, required |-> {"account_id"}],  \* :426
    [name |-> "list_account_contacts", properties |-> {"account_id", "limit", "page_token"}, required |-> {"account_id"}],  \* :437
    [name |-> "add_contact_to_account", properties |-> {"account_id", "contact_ids"}, required |-> {"account_id", "contact_ids"}],  \* :450
    [name |-> "remove_contact_from_account", properties |-> {"account_id", "contact_ids"}, required |-> {"account_id", "contact_ids"}],  \* :462
    [name |-> "delete_contact", properties |-> {"contact_id"}, required |-> {"contact_id"}],  \* :476
    [name |-> "merge_contacts", properties |-> {"source_contact_id", "target_contact_id"}, required |-> {"source_contact_id", "target_contact_id"}],  \* :487
    [name |-> "list_contact_conversations", properties |-> {"contact_id", "limit", "page_token"}, required |-> {"contact_id"}],  \* :499
    [name |-> "list_contact_notes", properties |-> {"contact_id"}, required |-> {"contact_id"}],  \* :512
    [name |-> "add_contact_note", properties |-> {"contact_id", "body", "author_id"}, required |-> {"contact_id", "body"}],  \* :523
    [name |-> "add_contact_handle", properties |-> {"contact_id", "handle", "source"}, required |-> {"contact_id", "handle", "source"}],  \* :536
    [name |-> "delete_contact_handle", properties |-> {"contact_id", "handle", "source"}, required |-> {"contact_id", "handle", "source"}],  \* :549
    [name |-> "list_teammate_contacts", properties |-> {"teammate_id", "limit", "page_token"}, required |-> {"teammate_id"}],  \* :562
    [name |-> "create_teammate_contact", properties |-> {"teammate_id", "name", "handles"}, required |-> {"teammate_id", "handles"}],  \* :575
    [name |-> "list_team_contacts", properties |-> {"team_id", "limit", "page_token"}, required |-> {"team_id"}],  \* :588
    [name |-> "list_channels", properties |-> {"limit", "page_token"}, required |-> {}],  \* :603
    [name |-> "create_channel", properties |-> {"type", "settings", "inbox_id"}, required |-> {"type", "settings"}],  \* :614
    [name |-> "get_channel", properties |-> {"channel_id"}, required |-> {"channel_id"}],  \* :627
    [name |-> "update_channel", properties |-> {"channel_id", "settings"}, required |-> {"channel_id"}],  \* :638
    [name |-> "validate_channel", properties |-> {"channel_id"}, required |-> {"channel_id"}],  \* :650
    [name |-> "list_teammate_channels", properties |-> {"teammate_id"}, required |-> {"teammate_id"}],  \* :661
    [name |-> "list_team_channels", properties |-> {"team_id"}, required |-> {"team_id"}],  \* :672
    [name |-> "sync_inbound_message", properties |-> {"channel_id", "sender", "subject", "body", "body_format", "metadata"}, required |-> {"channel_id", "sender", "body"}],  \* :683
    [name |-> "sync_outbound_message", properties |-> {"channel_id", "to", "subject", "body", "metadata"}, required |-> {"channel_id", "to", "body"}],  \* :699
    [name |-> "update_external_message_status", properties |-> {"channel_id", "message_id", "status"}, required |-> {"channel_id", "message_id", "status"}],  \* :714
    [name |-> "sync_application_message_template", properties |-> {"channel_id", "template"}, required |-> {"channel_id", "template"}],  \* :727
    [name |-> "get_comment", properties |-> {"comment_id"}, required |-> {"comment_id"}],  \* :741
    [name |-> "update_comment", properties |-> {"comment_id", "body"}, required |-> {"comment_id", "body"}],  \* :752
    [name |-> "list_comment_mentions", properties |-> {"comment_id"}, required |-> {"comment_id"}],  \* :764
    [name |-> "add_comment_reply", properties |-> {"comment_id", "body", "author_id"}, required |-> {"comment_id", "body"}],  \* :775
    [name |-> "list_contact_groups", properties |-> {"limit", "page_token"}, required |-> {}],  \* :790
    [name |-> "create_contact_group", properties |-> {"name"}, required |-> {"name"}],  \* :801
    [name |-> "delete_contact_group", properties |-> {"group_id"}, required |-> {"group_id"}],  \* :812
    [name |-> "list_group_contacts", properties |-> {"group_id"}, required |-> {"group_id"}],  \* :823
    [name |-> "add_contacts_to_group", properties |-> {"group_id", "contact_ids"}, required |-> {"group_id", "contact_ids"}],  \* :834
    [name |-> "remove_contacts_from_group", properties |-> {"group_id", "contact_ids"}, required |-> {"group_id", "contact_ids"}],  \* :846
    [name |-> "list_teammate_groups", properties |-> {"teammate_id"}, required |-> {"teammate_id"}],  \* :858
    [name |-> "create_teammate_group", properties |-> {"teammate_id", "name"}, required |-> {"teammate_id", "name"}],  \* :869
    [name |-> "list_team_groups", properties |-> {"team_id"}, required |-> {"team_id"}],  \* :881
    [name |-> "create_team_group", properties |-> {"team_id", "name"}, required |-> {"team_id", "name"}],  \* :892
    [name |-> "list_contact_lists", properties |-> {"limit", "page_token"}, required |-> {}],  \* :906
    [name |-> "create_contact_list", properties |-> {"name", "is_private"}, required |-> {"name"}],  \* :917
    [name |-> "delete_contact_list", properties |-> {"list_id"}, required |-> {"list_id"}],  \* :929
    [name |-> "list_contact_list_contacts", properties |-> {"list_id", "limit", "page_token"}, required |-> {"list_id"}],  \* :940
    [name |-> "add_contacts_to_list", properties |-> {"list_id", "contact_ids"}, required |-> {"list_id", "contact_ids"}],  \* :953
    [name |-> "remove_contacts_from_list", properties |-> {"list_id", "contact_ids"}, required |-> {"list_id", "contact_ids"}],  \* :965
    [name |-> "list_teammate_contact_lists", properties |-> {"teammate_id"}, required |-> {"teammate_id"}],  \* :977
    [name |-> "create_teammate_contact_list", properties |-> {"teammate_id", "name"}, required |-> {"teammate_id", "name"}],  \* :988
    [name |-> "list_team_contact_lists", properties |-> {"team_id"}, required |-> {"team_id"}],  \* :1000
    [name |-> "create_team_contact_list", properties |-> {"team_id", "name"}, required |-> {"team_id", "name"}],  \* :1011
    [name |-> "create_discussion_conversation", properties |-> {"teammate_ids", "subject", "comment_body"}, required |-> {"teammate_ids", "comment_body"}],  \* :1025
    [name |-> "update_conversation_assignee", properties |-> {"conversation_id", "assignee_id"}, required |-> {"conversation_id", "assignee_id"}],  \* :1038
    [name |-> "list_conversation_events", properties |-> {"conversation_id", "limit", "page_token"}, required |-> {"conversation_id"}],  \* :1050
    [name |-> "list_conversation_followers", properties |-> {"conversation_id"}, required |-> {"conversation_id"}],  \* :1063
    [name |-> "add_conversation_followers", properties |-> {"conversation_id", "teammate_ids"}, required |-> {"conversation_id", "teammate_ids"}],  \* :1074
    [name |-> "delete_conversation_followers", properties |-> {"conversation_id", "teammate_ids"}, required |-> {"conversation_id", "teammate_ids"}],  \* :1086
    [name |-> "list_conversation_inboxes", properties |-> {"conversation_id"}, required |-> {"conversation_id"}],  \* :1098
    [name |-> "add_conversation_link", properties |-> {"conversation_id", "link_ids"}, required |-> {"conversation_id", "link_ids"}],  \* :1109
    [name |-> "remove_conversation_links", properties |-> {"conversation_id", "link_ids"}, required |-> {"conversation_id", "link_ids"}],  \* :1121
    [name |-> "update_conversation_reminders", properties |-> {"conversation_id", "scheduled_at"}, required |-> {"conversation_id"}],  \* :1133
    [name |-> "add_conversation_tag", properties |-> {"conversation_id", "tag_ids"}, required |-> {"conversation_id", "tag_ids"}],  \* :1145
    [name |-> "remove_conversation_tag", properties |-> {"conversation_id", "tag_ids"}, required |-> {"conversation_id", "tag_ids"}],  \* :1157
    [name |-> "list_account_custom_fields", properties |-> {}, required |-> {}],  \* :1171
    [name |-> "list_contact_custom_fields", properties |-> {}, required |-> {}],  \* :1179
    [name |-> "list_conversation_custom_fields", properties |-> {}, required |-> {}],  \* :1187
    [name |-> "list_custom_fields", properties |-> {}, required |-> {}],  \* :1195
    [name |-> "list_inbox_custom_fields", properties |-> {}, required |-> {}],  \* :1203
    [name |-> "list_link_custom_fields", properties |-> {}, required |-> {}],  \* :1211
    [name |-> "list_teammate_custom_fields", properties |-> {}, required |-> {}],  \* :1219
    [name |-> "create_draft", properties |-> {"author_id", "to", "subject", "body", "channel_id"}, required |-> {"author_id", "body"}],  \* :1229
    [name |-> "list_conversation_drafts", properties |-> {"conversation_id"}, required |-> {"conversation_id"}],  \* :1244
    [name |-> "create_draft_reply", properties |-> {"channel_id", "conversation_id", "author_id", "body"}, required |-> {"channel_id", "author_id", "body"}],  \* :1255
    [name |-> "delete_draft", properties |-> {"draft_id", "version"}, required |-> {"draft_id", "version"}],  \* :1269
    [name |-> "edit_draft", properties |-> {"draft_id", "version", "body", "subject"}, required |-> {"draft_id", "version"}],  \* :1281
    [name |-> "list_events", properties |-> {"q", "limit", "page_token"}, required |-> {}],  \* :1297
    [name |-> "get_event", properties |-> {"event_id"}, required |-> {"event_id"}],  \* :1309
    [name |-> "create_inbox", properties |-> {"name", "teammate_ids"}, required |-> {"name"}],  \* :1322
    [name |-> "list_inbox_channels", properties |-> {"inbox_id"}, required |-> {"inbox_id"}],  \* :1334
    [name |-> "list_inbox_conversations", properties |-> {"inbox_id", "limit", "page_token"}, required |-> {"inbox_id"}],  \* :1345
    [name |-> "list_inbox_access", properties |-> {"inbox_id"}, required |-> {"inbox_id"}],  \* :1358
    [name |-> "add_inbox_access", properties |-> {"inbox_id", "teammate_ids"}, required |-> {"inbox_id", "teammate_ids"}],  \* :1369
    [name |-> "remove_inbox_access", properties |-> {"inbox_id", "teammate_ids"}, required |-> {"inbox_id", "teammate_ids"}],  \* :1381
    [name |-> "list_team_inboxes", properties |-> {"team_id"}, required |-> {"team_id"}],  \* :1393
    [name |-> "create_team_inbox", properties |-> {"team_id", "name"}, required |-> {"team_id", "name"}],  \* :1404
    [name |-> "receive_custom_message", properties |-> {"channel_id", "sender", "body", "subject", "metadata"}, required |-> {"channel_id", "sender", "body"}],  \* :1418
    [name |-> "import_message", properties |-> {"channel_id", "sender", "to", "body", "subject", "created_at", "metadata"}, required |-> {"channel_id", "sender", "to", "body", "created_at"}],  \* :1433
    [name |-> "get_message_seen_status", properties |-> {"message_id"}, required |-> {"message_id"}],  \* :1450
    [name |-> "mark_message_seen", properties |-> {"message_id"}, required |-> {"message_id"}],  \* :1461
    [name |-> "list_message_template_folders", properties |-> {"limit", "page_token"}, required |-> {}],  \* :1474
    [name |-> "create_message_template_folder", properties |-> {"name", "parent_folder_id"}, required |-> {"name"}],  \* :1485
    [name |-> "get_message_template_folder", properties |-> {"folder_id"}, required |-> {"folder_id"}],  \* :1497
    [name |-> "update_message_template_folder", properties |-> {"folder_id", "name"}, required |-> {"folder_id", "name"}],  \* :1508
    [name |-> "delete_message_template_folder", properties |-> {"folder_id"}, required |-> {"folder_id"}],  \* :1520
    [name |-> "list_child_folders", properties |-> {"folder_id"}, required |-> {"folder_id"}],  \* :1531
    [name |-> "create_child_folder", properties |-> {"folder_id", "name"}, required |-> {"folder_id", "name"}],  \* :1542
    [name |-> "list_teammate_folders", properties |-> {"teammate_id"}, required |-> {"teammate_id"}],  \* :1554
    [name |-> "create_teammate_folder", properties |-> {"teammate_id", "name"}, required |-> {"teammate_id", "name"}],  \* :1565
    [name |-> "list_team_folders", properties |-> {"team_id"}, required |-> {"team_id"}],  \* :1577
    [name |-> "list_message_templates", properties |-> {"limit", "page_token"}, required |-> {}],  \* :1590
    [name |-> "create_message_template", properties |-> {"name", "subject", "body", "folder_id"}, required |-> {"name", "body"}],  \* :1601
    [name |-> "get_message_template", properties |-> {"template_id"}, required |-> {"template_id"}],  \* :1615
    [name |-> "update_message_template", properties |-> {"template_id", "name", "subject", "body"}, required |-> {"template_id"}],  \* :1626
    [name |-> "delete_message_template", properties |-> {"template_id"}, required |-> {"template_id"}],  \* :1640
    [name |-> "list_child_templates", properties |-> {"template_id"}, required |-> {"template_id"}],  \* :1651
    [name |-> "create_child_template", properties |-> {"template_id", "name", "body"}, required |-> {"template_id", "name", "body"}],  \* :1662
    [name |-> "get_tag", properties |-> {"tag_id"}, required |-> {"tag_id"}],  \* :1677
    [name |-> "update_tag", properties |-> {"tag_id", "name", "highlight"}, required |-> {"tag_id"}],  \* :1688
    [name |-> "delete_tag", properties |-> {"tag_id"}, required |-> {"tag_id"}],  \* :1701
    [name |-> "list_tag_children", properties |-> {"tag_id"}, required |-> {"tag_id"}],  \* :1712
    [name |-> "create_child_tag", properties |-> {"tag_id", "name", "highlight"}, required |-> {"tag_id", "name"}],  \* :1723
    [name |-> "list_tagged_conversations", properties |-> {"tag_id", "limit", "page_token"}, required |-> {"tag_id"}],  \* :1736
    [name |-> "list_teammate_tags", properties |-> {"teammate_id"}, required |-> {"teammate_id"}],  \* :1749
    [name |-> "create_teammate_tag", properties |-> {"teammate_id", "name", "highlight"}, required |-> {"teammate_id", "name"}],  \* :1760
    [name |-> "list_team_tags", properties |-> {"team_id"}, required |-> {"team_id"}],  \* :1773
    [name |-> "create_team_tag", properties |-> {"team_id", "name", "highlight"}, required |-> {"team_id", "name"}],  \* :1784
    [name |-> "update_teammate", properties |-> {"teammate_id", "username", "first_name", "last_name", "is_available"}, required |-> {"teammate_id"}],  \* :1799
    [name |-> "list_teammate_conversations", properties |-> {"teammate_id", "limit", "page_token"}, required |-> {"teammate_id"}],  \* :1814
    [name |-> "list_teammate_inboxes", properties |-> {"teammate_id"}, required |-> {"teammate_id"}]  \* :1827
  >>

\* The enumerated values declared by descriptors (enum: [...]), in source order, keyed by
\* <<operation name, property name>>.
AllowedValues ==
     <<"update_conversation", "status">> :> <<"archived", "deleted", "open">>
  @@ <<"reply_to_conversation", "type">> :> <<"comment", "reply">>
  @@ <<"list_contacts", "sort_order">> :> <<"asc", "desc">>
  @@ <<"create_tag", "highlight">> :> <<"grey", "pink", "red", "orange", "yellow", "green", "light-blue", "blue", "purple">>
  @@ <<"sync_inbound_message", "body_format">> :> <<"html", "markdown">>
  @@ <<"update_external_message_status", "status">> :> <<"delivered", "bounced", "opened">>

\* The switch of the CallToolRequestSchema handler (index.ts:1931-2408): for
\* each case label the adapter method it calls and what it passes: the whole
\* typedArgs object (whole), or the listed fields read off typedArgs (reads).
Dispatch ==
     "list_conversations" :> [adapter |-> "listConversations", whole |-> TRUE, reads |-> <<>>]  \* :1933
  @@ "get_conversation" :> [adapter |-> "getConversation", whole |-> FALSE, reads |-> <<"conversation_id">>]  \* :1936
  @@ "search_conversations" :> [adapter |-> "searchConversations", whole |-> FALSE, reads |-> <<"query", "limit">>]  \* :1939
  @@ "update_conversation" :> [adapter |-> "updateConversation", whole |-> TRUE, reads |-> <<>>]  \* :1942
  @@ "list_conversation_messages" :> [adapter |-> "listConversationMessages", whole |-> TRUE, reads |-> <<>>]  \* :1947
  @@ "get_message" :> [adapter |-> "getMessage", whole |-> FALSE, reads |-> <<"message_id">>]  \* :1950
  @@ "send_message" :> [adapter |-> "sendMessage", whole |-> TRUE, reads |-> <<>>]  \* :1953
  @@ "reply_to_conversation" :> [adapter |-> "replyToConversation", whole |-> TRUE, reads |-> <<>>]  \* :1956
  @@ "list_contacts" :> [adapter |-> "listContacts", whole |-> TRUE, reads |-> <<>>]  \* :1961
  @@ "get_contact" :> [adapter |-> "getContact", whole |-> FALSE, reads |-> <<"contact_id">>]  \* :1964
  @@ "create_contact" :> [adapter |-> "createContact", whole |-> TRUE, reads |-> <<>>]  \* :1967
  @@ "update_contact" :> [adapter |-> "updateContact", whole |-> TRUE, reads |-> <<>>]  \* :1970
  @@ "list_teammates" :> [adapter |-> "listTeammates", whole |-> TRUE, reads |-> <<>>]  \* :1975
  @@ "get_teammate" :> [adapter |-> "getTeammate", whole |-> FALSE, reads |-> <<"teammate_id">>]  \* :1978
  @@ "list_tags" :> [adapter |-> "listTags", whole |-> TRUE, reads |-> <<>>]  \* :1983
  @@ "create_tag" :> [adapter |-> "createTag", whole |-> TRUE, reads |-> <<>>]  \* :1986
  @@ "list_inboxes" :> [adapter |-> "listInboxes", whole |-> TRUE, reads |-> <<>>]  \* :1991
  @@ "get_inbox" :> [adapter |-> "getInbox", whole |-> FALSE, reads |-> <<"inbox_id">>]  \* :1994
  @@ "list_conversation_comments" :> [adapter |-> "listConversationComments", whole |-> FALSE, reads |-> <<"conversation_id">>]  \* :1999
  @@ "add_comment" :> [adapter |-> "addComment", whole |-> TRUE, reads |-> <<>>]  \* :2002
  @@ "get_analytics" :> [adapter |-> "getAnalytics", whole |-> TRUE, reads |-> <<>>]  \* :2007
  @@ "list_accounts" :> [adapter |-> "listAccounts", whole |-> TRUE, reads |-> <<>>]  \* :2012
  @@ "create_account" :> [adapter |-> "createAccount", whole |-> TRUE, reads |-> <<>>]  \* :2015
  @@ "get_account" :> [adapter |-> "getAccount", whole |-> FALSE, reads |-> <<"account_id">>]  \* :2018
  @@ "update_account" :> [adapter |-> "updateAccount", whole |-> TRUE, reads |-> <<>>]  \* :2021
  @@ "delete_account" :> [adapter |-> "deleteAccount", whole |-> FALSE, reads |-> <<"account_id">>]  \* :2024
  @@ "list_account_contacts" :> [adapter |-> "listAccountContacts", whole |-> TRUE, reads |-> <<>>]  \* :2027
  @@ "add_contact_to_account" :> [adapter |-> "addContactToAccount", whole |-> TRUE, reads |-> <<>>]  \* :2030
  @@ "remove_contact_from_account" :> [adapter |-> "removeContactFromAccount", whole |-> TRUE, reads |-> <<>>]  \* :2033
  @@ "delete_contact" :> [adapter |-> "deleteContact", whole |-> FALSE, reads |-> <<"contact_id">>]  \* :2038
  @@ "merge_contacts" :> [adapter |-> "mergeContacts", whole |-> TRUE, reads |-> <<>>]  \* :2041
  @@ "list_contact_conversations" :> [adapter |-> "listContactConversations", whole |-> TRUE, reads |-> <<>>]  \* :2044
  @@ "list_contact_notes" :> [adapter |-> "listContactNotes", whole |-> FALSE, reads |-> <<"contact_id">>]  \* :2047
  @@ "add_contact_note" :> [adapter |-> "addContactNote", whole |-> TRUE, reads |-> <<>>]  \* :2050
  @@ "add_contact_handle" :> [adapter |-> "addContactHandle", whole |-> TRUE, reads |-> <<>>]  \* :2053
  @@ "delete_contact_handle" :> [adapter |-> "deleteContactHandle", whole |-> TRUE, reads |-> <<>>]  \* :2056
  @@ "list_teammate_contacts" :> [adapter |-> "listTeammateContacts", whole |-> TRUE, reads |-> <<>>]  \* :2059
  @@ "create_teammate_contact" :> [adapter |-> "createTeammateContact", whole |-> TRUE, reads |-> <<>>]  \* :2062
  @@ "list_team_contacts" :> [adapter |-> "listTeamContacts", whole |-> TRUE, reads |-> <<>>]  \* :2065
  @@ "list_channels" :> [adapter |-> "listChannels", whole |-> TRUE, reads |-> <<>>]  \* :2070
  @@ "create_channel" :> [adapter |-> "createChannel", whole |-> TRUE, reads |-> <<>>]  \* :2073
  @@ "get_channel" :> [adapter |-> "getChannel", whole |-> FALSE, reads |-> <<"channel_id">>]  \* :2076
  @@ "update_channel" :> [adapter |-> "updateChannel", whole |-> TRUE, reads |-> <<>>]  \* :2079
  @@ "validate_channel" :> [adapter |-> "validateChannel", whole |-> FALSE, reads |-> <<"channel_id">>]  \* :2082
  @@ "list_teammate_channels" :> [adapter |-> "listTeammateChannels", whole |-> FALSE, reads |-> <<"teammate_id">>]  \* :2085
  @@ "list_team_channels" :> [adapter |-> "listTeamChannels", whole |-> FALSE, reads |-> <<"team_id">>]  \* :2088
  @@ "sync_inbound_message" :> [adapter |-> "syncInboundMessage", whole |-> TRUE, reads |-> <<>>]  \* :2091
  @@ "sync_outbound_message" :> [adapter |-> "syncOutboundMessage", whole |-> TRUE, reads |-> <<>>]  \* :2094
  @@ "update_external_message_status" :> [adapter |-> "updateExternalMessageStatus", whole |-> TRUE, reads |-> <<>>]  \* :2097
  @@ "sync_application_message_template" :> [adapter |-> "syncApplicationMessageTemplate", whole |-> TRUE, reads |-> <<>>]  \* :2100
  @@ "get_comment" :> [adapter |-> "getComment", whole |-> FALSE, reads |-> <<"comment_id">>]  \* :2105
  @@ "update_comment" :> [adapter |-> "updateComment", whole |-> TRUE, reads |-> <<>>]  \* :2108
  @@ "list_comment_mentions" :> [adapter |-> "listCommentMentions", whole |-> FALSE, reads |-> <<"comment_id">>]  \* :2111
  @@ "add_comment_reply" :> [adapter |-> "addCommentReply", whole |-> TRUE, reads |-> <<>>]  \* :2114
  @@ "list_contact_groups" :> [adapter |-> "listContactGroups", whole |-> TRUE, reads |-> <<>>]  \* :2119
  @@ "create_contact_group" :> [adapter |-> "createContactGroup", whole |-> TRUE, reads |-> <<>>]  \* :2122
  @@ "delete_contact_group" :> [adapter |-> "deleteContactGroup", whole |-> FALSE, reads |-> <<"group_id">>]  \* :2125
  @@ "list_group_contacts" :> [adapter |-> "listGroupContacts", whole |-> FALSE, reads |-> <<"group_id">>]  \* :2128
  @@ "add_contacts_to_group" :> [adapter |-> "addContactsToGroup", whole |-> TRUE, reads |-> <<>>]  \* :2131
  @@ "remove_contacts_from_group" :> [adapter |-> "removeContactsFromGroup", whole |-> TRUE, reads |-> <<>>]  \* :2134
  @@ "list_teammate_groups" :> [adapter |-> "listTeammateGroups", whole |-> FALSE, reads |-> <<"teammate_id">>]  \* :2137
  @@ "create_teammate_group" :> [adapter |-> "createTeammateGroup", whole |-> TRUE, reads |-> <<>>]  \* :2140
  @@ "list_team_groups" :> [adapter |-> "listTeamGroups", whole |-> FALSE, reads |-> <<"team_id">>]  \* :2143
  @@ "create_team_group" :> [adapter |-> "createTeamGroup", whole |-> TRUE, reads |-> <<>>]  \* :2146
  @@ "list_contact_lists" :> [adapter |-> "listContactLists", whole |-> TRUE, reads |-> <<>>]  \* :2151
  @@ "create_contact_list" :> [adapter |-> "createContactList", whole |-> TRUE, reads |-> <<>>]  \* :2154
  @@ "delete_contact_list" :> [adapter |-> "deleteContactList", whole |-> FALSE, reads |-> <<"list_id">>]  \* :2157
  @@ "list_contact_list_contacts" :> [adapter |-> "listContactListContacts", whole |-> TRUE, reads |-> <<>>]  \* :2160
  @@ "add_contacts_to_list" :> [adapter |-> "addContactsToList", whole |-> TRUE, reads |-> <<>>]  \* :2163
  @@ "remove_contacts_from_list" :> [adapter |-> "removeContactsFromList", whole |-> TRUE, reads |-> <<>>]  \* :2166
  @@ "list_teammate_contact_lists" :> [adapter |-> "listTeammateContactLists", whole |-> FALSE, reads |-> <<"teammate_id">>]  \* :2169
  @@ "create_teammate_contact_list" :> [adapter |-> "createTeammateContactList", whole |-> TRUE, reads |-> <<>>]  \* :2172
  @@ "list_team_contact_lists" :> [adapter |-> "listTeamContactLists", whole |-> FALSE, reads |-> <<"team_id">>]  \* :2175
  @@ "create_team_contact_list" :> [adapter |-> "createTeamContactList", whole |-> TRUE, reads |-> <<>>]  \* :2178
  @@ "create_discussion_conversation" :> [adapter |-> "createDiscussionConversation", whole |-> TRUE, reads |-> <<>>]  \* :2183
  @@ "update_conversation_assignee" :> [adapter |-> "updateConversationAssignee", whole |-> TRUE, reads |-> <<>>]  \* :2186
  @@ "list_conversation_events" :> [adapter |-> "listConversationEvents", whole |-> TRUE, reads |-> <<>>]  \* :2189
  @@ "list_conversation_followers" :> [adapter |-> "listConversationFollowers", whole |-> FALSE, reads |-> <<"conversation_id">>]  \* :2192
  @@ "add_conversation_followers" :> [adapter |-> "addConversationFollowers", whole |-> TRUE, reads |-> <<>>]  \* :2195
  @@ "delete_conversation_followers" :> [adapter |-> "deleteConversationFollowers", whole |-> TRUE, reads |-> <<>>]  \* :2198
  @@ "list_conversation_inboxes" :> [adapter |-> "listConversationInboxes", whole |-> FALSE, reads |-> <<"conversation_id">>]  \* :2201
  @@ "add_conversation_link" :> [adapter |-> "addConversationLink", whole |-> TRUE, reads |-> <<>>]  \* :2204
  @@ "remove_conversation_links" :> [adapter |-> "removeConversationLinks", whole |-> TRUE, reads |-> <<>>]  \* :2207
  @@ "update_conversation_reminders" :> [adapter |-> "updateConversationReminders", whole |-> TRUE, reads |-> <<>>]  \* :2210
  @@ "add_conversation_tag" :> [adapter |-> "addConversationTag", whole |-> TRUE, reads |-> <<>>]  \* :2213
  @@ "remove_conversation_tag" :> [adapter |-> "removeConversationTag", whole |-> TRUE, reads |-> <<>>]  \* :2216
  @@ "list_account_custom_fields" :> [adapter |-> "listAccountCustomFields", whole |-> FALSE, reads |-> <<>>]  \* :2221
  @@ "list_contact_custom_fields" :> [adapter |-> "listContactCustomFields", whole |-> FALSE, reads |-> <<>>]  \* :2224
  @@ "list_conversation_custom_fields" :> [adapter |-> "listConversationCustomFields", whole |-> FALSE, reads |-> <<>>]  \* :2227
  @@ "list_custom_fields" :> [adapter |-> "listCustomFields", whole |-> FALSE, reads |-> <<>>]  \* :2230
  @@ "list_inbox_custom_fields" :> [adapter |-> "listInboxCustomFields", whole |-> FALSE, reads |-> <<>>]  \* :2233
  @@ "list_link_custom_fields" :> [adapter |-> "listLinkCustomFields", whole |-> FALSE, reads |-> <<>>]  \* :2236
  @@ "list_teammate_custom_fields" :> [adapter |-> "listTeammateCustomFields", whole |-> FALSE, reads |-> <<>>]  \* :2239
  @@ "create_draft" :> [adapter |-> "createDraft", whole |-> TRUE, reads |-> <<>>]  \* :2244
  @@ "list_conversation_drafts" :> [adapter |-> "listConversationDrafts", whole |-> FALSE, reads |-> <<"conversation_id">>]  \* :2247
  @@ "create_draft_reply" :> [adapter |-> "createDraftReply", whole |-> TRUE, reads |-> <<>>]  \* :2250
  @@ "delete_draft" :> [adapter |-> "deleteDraft", whole |-> TRUE, reads |-> <<>>]  \* :2253
  @@ "edit_draft" :> [adapter |-> "editDraft", whole |-> TRUE, reads |-> <<>>]  \* :2256
  @@ "list_events" :> [adapter |-> "listEvents", whole |-> TRUE, reads |-> <<>>]  \* :2261
  @@ "get_event" :> [adapter |-> "getEvent", whole |-> FALSE, reads |-> <<"event_id">>]  \* :2264
  @@ "create_inbox" :> [adapter |-> "createInbox", whole |-> TRUE, reads |-> <<>>]  \* :2269
  @@ "list_inbox_channels" :> [adapter |-> "listInboxChannels", whole |-> FALSE, reads |-> <<"inbox_id">>]  \* :2272
  @@ "list_inbox_conversations" :> [adapter |-> "listInboxConversations", whole |-> TRUE, reads |-> <<>>]  \* :2275
  @@ "list_inbox_access" :> [adapter |-> "listInboxAccess", whole |-> FALSE, reads |-> <<"inbox_id">>]  \* :2278
  @@ "add_inbox_access" :> [adapter |-> "addInboxAccess", whole |-> TRUE, reads |-> <<>>]  \* :2281
  @@ "remove_inbox_access" :> [adapter |-> "removeInboxAccess", whole |-> TRUE, reads |-> <<>>]  \* :2284
  @@ "list_team_inboxes" :> [adapter |-> "listTeamInboxes", whole |-> FALSE, reads |-> <<"team_id">>]  \* :2287
  @@ "create_team_inbox" :> [adapter |-> "createTeamInbox", whole |-> TRUE, reads |-> <<>>]  \* :2290
  @@ "receive_custom_message" :> [adapter |-> "receiveCustomMessage", whole |-> TRUE, reads |-> <<>>]  \* :2295
  @@ "import_message" :> [adapter |-> "importMessage", whole |-> TRUE, reads |-> <<>>]  \* :2298
  @@ "get_message_seen_status" :> [adapter |-> "getMessageSeenStatus", whole |-> FALSE, reads |-> <<"message_id">>]  \* :2301
  @@ "mark_message_seen" :> [adapter |-> "markMessageSeen", whole |-> FALSE, reads |-> <<"message_id">>]  \* :2304
  @@ "list_message_template_folders" :> [adapter |-> "listMessageTemplateFolders", whole |-> TRUE, reads |-> <<>>]  \* :2309
  @@ "create_message_template_folder" :> [adapter |-> "createMessageTemplateFolder", whole |-> TRUE, reads |-> <<>>]  \* :2312
  @@ "get_message_template_folder" :> [adapter |-> "getMessageTemplateFolder", whole |-> FALSE, reads |-> <<"folder_id">>]  \* :2315
  @@ "update_message_template_folder" :> [adapter |-> "updateMessageTemplateFolder", whole |-> TRUE, reads |-> <<>>]  \* :2318
  @@ "delete_message_template_folder" :> [adapter |-> "deleteMessageTemplateFolder", whole |-> FALSE, reads |-> <<"folder_id">>]  \* :2321
  @@ "list_child_folders" :> [adapter |-> "listChildFolders", whole |-> FALSE, reads |-> <<"folder_id">>]  \* :2324
  @@ "create_child_folder" :> [adapter |-> "createChildFolder", whole |-> TRUE, reads |-> <<>>]  \* :2327
  @@ "list_teammate_folders" :> [adapter |-> "listTeammateFolders", whole |-> FALSE, reads |-> <<"teammate_id">>]  \* :2330
  @@ "create_teammate_folder" :> [adapter |-> "createTeammateFolder", whole |-> TRUE, reads |-> <<>>]  \* :2333
  @@ "list_team_folders" :> [adapter |-> "listTeamFolders", whole |-> FALSE, reads |-> <<"team_id">>]  \* :2336
  @@ "list_message_templates" :> [adapter |-> "listMessageTemplates", whole |-> TRUE, reads |-> <<>>]  \* :2341
  @@ "create_message_template" :> [adapter |-> "createMessageTemplate", whole |-> TRUE, reads |-> <<>>]  \* :2344
  @@ "get_message_template" :> [adapter |-> "getMessageTemplate", whole |-> FALSE, reads |-> <<"template_id">>]  \* :2347
  @@ "update_message_template" :> [adapter |-> "updateMessageTemplate", whole |-> TRUE, reads |-> <<>>]  \* :2350
  @@ "delete_message_template" :> [adapter |-> "deleteMessageTemplate", whole |-> FALSE, reads |-> <<"template_id">>]  \* :2353
  @@ "list_child_templates" :> [adapter |-> "listChildTemplates", whole |-> FALSE, reads |-> <<"template_id">>]  \* :2356
  @@ "create_child_template" :> [adapter |-> "createChildTemplate", whole |-> TRUE, reads |-> <<>>]  \* :2359
  @@ "get_tag" :> [adapter |-> "getTag", whole |-> FALSE, reads |-> <<"tag_id">>]  \* :2364
  @@ "update_tag" :> [adapter |-> "updateTag", whole |-> TRUE, reads |-> <<>>]  \* :2367
  @@ "delete_tag" :> [adapter |-> "deleteTag", whole |-> FALSE, reads |-> <<"tag_id">>]  \* :2370
  @@ "list_tag_children" :> [adapter |-> "listTagChildren", whole |-> FALSE, reads |-> <<"tag_id">>]  \* :2373
  @@ "create_child_tag" :> [adapter |-> "createChildTag", whole |-> TRUE, reads |-> <<>>]  \* :2376
  @@ "list_tagged_conversations" :> [adapter |-> "listTaggedConversations", whole |-> TRUE, reads |-> <<>>]  \* :2379
  @@ "list_teammate_tags" :> [adapter |-> "listTeammateTags", whole |-> FALSE, reads |-> <<"teammate_id">>]  \* :2382
  @@ "create_teammate_tag" :> [adapter |-> "createTeammateTag", whole |-> TRUE, reads |-> <<>>]  \* :2385
  @@ "list_team_tags" :> [adapter |-> "listTeamTags", whole |-> FALSE, reads |-> <<"team_id">>]  \* :2388
  @@ "create_team_tag" :> [adapter |-> "createTeamTag", whole |-> TRUE, reads |-> <<>>]  \* :2391
  @@ "update_teammate" :> [adapter |-> "updateTeammate", whole |-> TRUE, reads |-> <<>>]  \* :2396
  @@ "list_teammate_conversations" :> [adapter |-> "listTeammateConversations", whole |-> TRUE, reads |-> <<>>]  \* :2399
  @@ "list_teammate_inboxes" :> [adapter |-> "listTeammateInboxes", whole |-> FALSE, reads |-> <<"teammate_id">>]  \* :2402

\* The adapter methods (index.ts:2423-3270), one record per method:
\*   formals       the parameter names of the method;
\*   destructures  whether the body opens with const { ... } = params;
\*   consumed      the names that destructuring binds, in order (without the rest);
\*   rest          whether the destructuring ends with ...data / ...queryParams;
\*   method        the axios verb;
\*   path          the template literal, split at "/" into <<"lit", text>>,
\*                 <<"var", name>> and <<"endpoint", "type">> (the computed
\*                 sub-resource of replyToConversation);
\*   place         where the payload goes: "params" (config.params, the query
\*                 string), "data" (the body argument), "config.data" (the
\*                 body of a delete), "none";
\*   payload       how the payload is built: "whole" (the params object as
\*                 given), "rest" (the rest of the destructuring), "pick" (an
\*                 object literal of the listed key/variable pairs),
\*                 "pick+rest" ({ version, ...data }), "value" (the value of
\*                 one variable, unwrapped), "none";
\*   pick          the <<key, variable>> pairs of the object literal;
\*   value         the variable used whole as the body.
Adapters ==
     "listConversations" :>  \* :2424-2427
       [formals |-> <<"params">>, destructures |-> FALSE, consumed |-> <<>>, rest |-> FALSE, method |-> "GET", path |-> <<<<"lit", "conversations">>>>, place |-> "params", payload |-> "whole", pick |-> <<>>, value |-> ""]
  @@ "getConversation" :>  \* :2429-2432
       [formals |-> <<"conversationId">>, destructures |-> FALSE, consumed |-> <<>>, rest |-> FALSE, method |-> "GET", path |-> <<<<"lit", "conversations">>, <<"var", "conversationId">>>>, place |-> "none", payload |-> "none", pick |-> <<>>, value |-> ""]
  @@ "searchConversations" :>  \* :2434-2439
       [formals |-> <<"query", "limit">>, destructures |-> FALSE, consumed |-> <<>>, rest |-> FALSE, method |-> "GET", path |-> <<<<"lit", "conversations">>, <<"lit", "search">>>>, place |-> "params", payload |-> "pick", pick |-> <<<<"q", "query">>, <<"limit", "limit">>>>, value |-> ""]
  @@ "updateConversation" :>  \* :2441-2445
       [formals |-> <<"params">>, destructures |-> TRUE, consumed |-> <<"conversation_id">>, rest |-> TRUE, method |-> "PATCH", path |-> <<<<"lit", "conversations">>, <<"var", "conversation_id">>>>, place |-> "data", payload |-> "rest", pick |-> <<>>, value |-> ""]
  @@ "listConversationMessages" :>  \* :2448-2455
       [formals |-> <<"params">>, destructures |-> TRUE, consumed |-> <<"conversation_id">>, rest |-> TRUE, method |-> "GET", path |-> <<<<"lit", "conversations">>, <<"var", "conversation_id">>, <<"lit", "messages">>>>, place |-> "params", payload |-> "rest", pick |-> <<>>, value |-> ""]
  @@ "getMessage" :>  \* :2457-2460
       [formals |-> <<"messageId">>, destructures |-> FALSE, consumed |-> <<>>, rest |-> FALSE, method |-> "GET", path |-> <<<<"lit", "messages">>, <<"var", "messageId">>>>, place |-> "none", payload |-> "none", pick |-> <<>>, value |-> ""]
  @@ "sendMessage" :>  \* :2462-2466
       [formals |-> <<"params">>, destructures |-> TRUE, consumed |-> <<"channel_id">>, rest |-> TRUE, method |-> "POST", path |-> <<<<"lit", "channels">>, <<"var", "channel_id">>, <<"lit", "messages">>>>, place |-> "data", payload |-> "rest", pick |-> <<>>, value |-> ""]
  @@ "replyToConversation" :>  \* :2468-2476
       [formals |-> <<"params">>, destructures |-> TRUE, consumed |-> <<"conversation_id", "type">>, rest |-> TRUE, method |-> "POST", path |-> <<<<"lit", "conversations">>, <<"var", "conversation_id">>, <<"endpoint", "type">>>>, place |-> "data", payload |-> "rest", pick |-> <<>>, value |-> ""]
  @@ "listContacts" :>  \* :2479-2482
       [formals |-> <<"params">>, destructures |-> FALSE, consumed |-> <<>>, rest |-> FALSE, method |-> "GET", path |-> <<<<"lit", "contacts">>>>, place |-> "params", payload |-> "whole", pick |-> <<>>, value |-> ""]
  @@ "getContact" :>  \* :2484-2487
       [formals |-> <<"contactId">>, destructures |-> FALSE, consumed |-> <<>>, rest |-> FALSE, method |-> "GET", path |-> <<<<"lit", "contacts">>, <<"var", "contactId">>>>, place |-> "none", payload |-> "none", pick |-> <<>>, value |-> ""]
  @@ "createContact" :>  \* :2489-2492
       [formals |-> <<"params">>, destructures |-> FALSE, consumed |-> <<>>, rest |-> FALSE, method |-> "POST", path |-> <<<<"lit", "contacts">>>>, place |-> "data", payload |-> "whole", pick |-> <<>>, value |-> ""]
  @@ "updateContact" :>  \* :2494-2498
       [formals |-> <<"params">>, destructures |-> TRUE, consumed |-> <<"contact_id">>, rest |-> TRUE, method |-> "PATCH", path |-> <<<<"lit", "contacts">>, <<"var", "contact_id">>>>, place |-> "data", payload |-> "rest", pick |-> <<>>, value |-> ""]
  @@ "listTeammates" :>  \* :2501-2504
       [formals |-> <<"params">>, destructures |-> FALSE, consumed |-> <<>>, rest |-> FALSE, method |-> "GET", path |-> <<<<"lit", "teammates">>>>, place |-> "params", payload |-> "whole", pick |-> <<>>, value |-> ""]
  @@ "getTeammate" :>  \* :2506-2509
       [formals |-> <<"teammateId">>, destructures |-> FALSE, consumed |-> <<>>, rest |-> FALSE, method |-> "GET", path |-> <<<<"lit", "teammates">>, <<"var", "teammateId">>>>, place |-> "none", payload |-> "none", pick |-> <<>>, value |-> ""]
  @@ "listTags" :>  \* :2512-2515
       [formals |-> <<"params">>, destructures |-> FALSE, consumed |-> <<>>, rest |-> FALSE, method |-> "GET", path |-> <<<<"lit", "tags">>>>, place |-> "params", payload |-> "whole", pick |-> <<>>, value |-> ""]
  @@ "createTag" :>  \* :2517-2520
       [formals |-> <<"params">>, destructures |-> FALSE, consumed |-> <<>>, rest |-> FALSE, method |-> "POST", path |-> <<<<"lit", "tags">>>>, place |-> "data", payload |-> "whole", pick |-> <<>>, value |-> ""]
  @@ "listInboxes" :>  \* :2523-2526
       [formals |-> <<"params">>, destructures |-> FALSE, consumed |-> <<>>, rest |-> FALSE, method |-> "GET", path |-> <<<<"lit", "inboxes">>>>, place |-> "params", payload |-> "whole", pick |-> <<>>, value |-> ""]
  @@ "getInbox" :>  \* :2528-2531
       [formals |-> <<"inboxId">>, destructures |-> FALSE, consumed |-> <<>>, rest |-> FALSE, method |-> "GET", path |-> <<<<"lit", "inboxes">>, <<"var", "inboxId">>>>, place |-> "none", payload |-> "none", pick |-> <<>>, value |-> ""]
  @@ "listConversationComments" :>  \* :2534-2537
       [formals |-> <<"conversationId">>, destructures |-> FALSE, consumed |-> <<>>, rest |-> FALSE, method |-> "GET", path |-> <<<<"lit", "conversations">>, <<"var", "conversationId">>, <<"lit", "comments">>>>, place |-> "none", payload |-> "none", pick |-> <<>>, value |-> ""]
  @@ "addComment" :>  \* :2539-2546
       [formals |-> <<"params">>, destructures |-> TRUE, consumed |-> <<"conversation_id">>, rest |-> TRUE, method |-> "POST", path |-> <<<<"lit", "conversations">>, <<"var", "conversation_id">>, <<"lit", "comments">>>>, place |-> "data", payload |-> "rest", pick |-> <<>>, value |-> ""]
  @@ "getAnalytics" :>  \* :2549-2552
       [formals |-> <<"params">>, destructures |-> FALSE, consumed |-> <<>>, rest |-> FALSE, method |-> "GET", path |-> <<<<"lit", "analytics">>>>, place |-> "params", payload |-> "whole", pick |-> <<>>, value |-> ""]
  @@ "listAccounts" :>  \* :2555-2558
       [formals |-> <<"params">>, destructures |-> FALSE, consumed |-> <<>>, rest |-> FALSE, method |-> "GET", path |-> <<<<"lit", "accounts">>>>, place |-> "params", payload |-> "whole", pick |-> <<>>, value |-> ""]
  @@ "createAccount" :>  \* :2560-2563
       [formals |-> <<"params">>, destructures |-> FALSE, consumed |-> <<>>, rest |-> FALSE, method |-> "POST", path |-> <<<<"lit", "accounts">>>>, place |-> "data", payload |-> "whole", pick |-> <<>>, value |-> ""]
  @@ "getAccount" :>  \* :2565-2568
       [formals |-> <<"accountId">>, destructures |-> FALSE, consumed |-> <<>>, rest |-> FALSE, method |-> "GET", path |-> <<<<"lit", "accounts">>, <<"var", "accountId">>>>, place |-> "none", payload |-> "none", pick |-> <<>>, value |-> ""]
  @@ "updateAccount" :>  \* :2570-2574
       [formals |-> <<"params">>, destructures |-> TRUE, consumed |-> <<"account_id">>, rest |-> TRUE, method |-> "PATCH", path |-> <<<<"lit", "accounts">>, <<"var", "account_id">>>>, place |-> "data", payload |-> "rest", pick |-> <<>>, value |-> ""]
  @@ "deleteAccount" :>  \* :2576-2579
       [formals |-> <<"accountId">>, destructures |-> FALSE, consumed |-> <<>>, rest |-> FALSE, method |-> "DELETE", path |-> <<<<"lit", "accounts">>, <<"var", "accountId">>>>, place |-> "none", payload |-> "none", pick |-> <<>>, value |-> ""]
  @@ "listAccountContacts" :>  \* :2581-2585
       [formals |-> <<"params">>, destructures |-> TRUE, consumed |-> <<"account_id">>, rest |-> TRUE, method |-> "GET", path |-> <<<<"lit", "accounts">>, <<"var", "account_id">>, <<"lit", "contacts">>>>, place |-> "params", payload |-> "rest", pick |-> <<>>, value |-> ""]
  @@ "addContactToAccount" :>  \* :2587-2591
       [formals |-> <<"params">>, destructures |-> TRUE, consumed |-> <<"account_id", "contact_ids">>, rest |-> FALSE, method |-> "POST", path |-> <<<<"lit", "accounts">>, <<"var", "account_id">>, <<"lit", "contacts">>>>, place |-> "data", payload |-> "pick", pick |-> <<<<"contact_ids", "contact_ids">>>>, value |-> ""]
  @@ "removeContactFromAccount" :>  \* :2593-2597
       [formals |-> <<"params">>, destructures |-> TRUE, consumed |-> <<"account_id", "contact_ids">>, rest |-> FALSE, method |-> "DELETE", path |-> <<<<"lit", "accounts">>, <<"var", "account_id">>, <<"lit", "contacts">>>>, place |-> "config.data", payload |-> "pick", pick |-> <<<<"contact_ids", "contact_ids">>>>, value |-> ""]
  @@ "deleteContact" :>  \* :2600-2603
       [formals |-> <<"contactId">>, destructures |-> FALSE, consumed |-> <<>>, rest |-> FALSE, method |-> "DELETE", path |-> <<<<"lit", "contacts">>, <<"var", "contactId">>>>, place |-> "none", payload |-> "none", pick |-> <<>>, value |-> ""]
  @@ "mergeContacts" :>  \* :2605-2612
       [formals |-> <<"params">>, destructures |-> TRUE, consumed |-> <<"source_contact_id", "target_contact_id">>, rest |-> FALSE, method |-> "POST", path |-> <<<<"lit", "contacts">>, <<"lit", "merge">>>>, place |-> "data", payload |-> "pick", pick |-> <<<<"source_contact_id", "source_contact_id">>, <<"target_contact_id", "target_contact_id">>>>, value |-> ""]
  @@ "listContactConversations" :>  \* :2614-2618
       [formals |-> <<"params">>, destructures |-> TRUE, consumed |-> <<"contact_id">>, rest |-> TRUE, method |-> "GET", path |-> <<<<"lit", "contacts">>, <<"var", "contact_id">>, <<"lit", "conversations">>>>, place |-> "params", payload |-> "rest", pick |-> <<>>, value |-> ""]
  @@ "listContactNotes" :>  \* :2620-2623
       [formals |-> <<"contactId">>, destructures |-> FALSE, consumed |-> <<>>, rest |-> FALSE, method |-> "GET", path |-> <<<<"lit", "contacts">>, <<"var", "contactId">>, <<"lit", "notes">>>>, place |-> "none", payload |-> "none", pick |-> <<>>, value |-> ""]
  @@ "addContactNote" :>  \* :2625-2629
       [formals |-> <<"params">>, destructures |-> TRUE, consumed |-> <<"contact_id">>, rest |-> TRUE, method |-> "POST", path |-> <<<<"lit", "contacts">>, <<"var", "contact_id">>, <<"lit", "notes">>>>, place |-> "data", payload |-> "rest", pick |-> <<>>, value |-> ""]
  @@ "addContactHandle" :>  \* :2631-2635
       [formals |-> <<"params">>, destructures |-> TRUE, consumed |-> <<"contact_id", "handle", "source">>, rest |-> FALSE, method |-> "POST", path |-> <<<<"lit", "contacts">>, <<"var", "contact_id">>, <<"lit", "handles">>>>, place |-> "data", payload |-> "pick", pick |-> <<<<"handle", "handle">>, <<"source", "source">>>>, value |-> ""]
  @@ "deleteContactHandle" :>  \* :2637-2643
       [formals |-> <<"params">>, destructures |-> TRUE, consumed |-> <<"contact_id", "handle", "source">>, rest |-> FALSE, method |-> "DELETE", path |-> <<<<"lit", "contacts">>, <<"var", "contact_id">>, <<"lit", "handles">>>>, place |-> "config.data", payload |-> "pick", pick |-> <<<<"handle", "handle">>, <<"source", "source">>>>, value |-> ""]
  @@ "listTeammateContacts" :>  \* :2645-2649
       [formals |-> <<"params">>, destructures |-> TRUE, consumed |-> <<"teammate_id">>, rest |-> TRUE, method |-> "GET", path |-> <<<<"lit", "teammates">>, <<"var", "teammate_id">>, <<"lit", "contacts">>>>, place |-> "params", payload |-> "rest", pick |-> <<>>, value |-> ""]
  @@ "createTeammateContact" :>  \* :2651-2655
       [formals |-> <<"params">>, destructures |-> TRUE, consumed |-> <<"teammate_id">>, rest |-> TRUE, method |-> "POST", path |-> <<<<"lit", "teammates">>, <<"var", "teammate_id">>, <<"lit", "contacts">>>>, place |-> "data", payload |-> "rest", pick |-> <<>>, value |-> ""]
  @@ "listTeamContacts" :>  \* :2657-2661
       [formals |-> <<"params">>, destructures |-> TRUE, consumed |-> <<"team_id">>, rest |-> TRUE, method |-> "GET", path |-> <<<<"lit", "teams">>, <<"var", "team_id">>, <<"lit", "contacts">>>>, place |-> "params", payload |-> "rest", pick |-> <<>>, value |-> ""]
  @@ "listChannels" :>  \* :2664-2667
       [formals |-> <<"params">>, destructures |-> FALSE, consumed |-> <<>>, rest |-> FALSE, method |-> "GET", path |-> <<<<"lit", "channels">>>>, place |-> "params", payload |-> "whole", pick |-> <<>>, value |-> ""]
  @@ "createChannel" :>  \* :2669-2672
       [formals |-> <<"params">>, destructures |-> FALSE, consumed |-> <<>>, rest |-> FALSE, method |-> "POST", path |-> <<<<"lit", "channels">>>>, place |-> "data", payload |-> "whole", pick |-> <<>>, value |-> ""]
  @@ "getChannel" :>  \* :2674-2677
       [formals |-> <<"channelId">>, destructures |-> FALSE, consumed |-> <<>>, rest |-> FALSE, method |-> "GET", path |-> <<<<"lit", "channels">>, <<"var", "channelId">>>>, place |-> "none", payload |-> "none", pick |-> <<>>, value |-> ""]
  @@ "updateChannel" :>  \* :2679-2683
       [formals |-> <<"params">>, destructures |-> TRUE, consumed |-> <<"channel_id">>, rest |-> TRUE, method |-> "PATCH", path |-> <<<<"lit", "channels">>, <<"var", "channel_id">>>>, place |-> "data", payload |-> "rest", pick |-> <<>>, value |-> ""]
  @@ "validateChannel" :>  \* :2685-2688
       [formals |-> <<"channelId">>, destructures |-> FALSE, consumed |-> <<>>, rest |-> FALSE, method |-> "POST", path |-> <<<<"lit", "channels">>, <<"var", "channelId">>, <<"lit", "validate">>>>, place |-> "none", payload |-> "none", pick |-> <<>>, value |-> ""]
  @@ "listTeammateChannels" :>  \* :2690-2693
       [formals |-> <<"teammateId">>, destructures |-> FALSE, consumed |-> <<>>, rest |-> FALSE, method |-> "GET", path |-> <<<<"lit", "teammates">>, <<"var", "teammateId">>, <<"lit", "channels">>>>, place |-> "none", payload |-> "none", pick |-> <<>>, value |-> ""]
  @@ "listTeamChannels" :>  \* :2695-2698
       [formals |-> <<"teamId">>, destructures |-> FALSE, consumed |-> <<>>, rest |-> FALSE, method |-> "GET", path |-> <<<<"lit", "teams">>, <<"var", "teamId">>, <<"lit", "channels">>>>, place |-> "none", payload |-> "none", pick |-> <<>>, value |-> ""]
  @@ "syncInboundMessage" :>  \* :2700-2704
       [formals |-> <<"params">>, destructures |-> TRUE, consumed |-> <<"channel_id">>, rest |-> TRUE, method |-> "POST", path |-> <<<<"lit", "channels">>, <<"var", "channel_id">>, <<"lit", "inbound_messages">>>>, place |-> "data", payload |-> "rest", pick |-> <<>>, value |-> ""]
  @@ "syncOutboundMessage" :>  \* :2706-2710
       [formals |-> <<"params">>, destructures |-> TRUE, consumed |-> <<"channel_id">>, rest |-> TRUE, method |-> "POST", path |-> <<<<"lit", "channels">>, <<"var", "channel_id">>, <<"lit", "outbound_messages">>>>, place |-> "data", payload |-> "rest", pick |-> <<>>, value |-> ""]
  @@ "updateExternalMessageStatus" :>  \* :2712-2719
       [formals |-> <<"params">>, destructures |-> TRUE, consumed |-> <<"channel_id", "message_id", "status">>, rest |-> FALSE, method |-> "PUT", path |-> <<<<"lit", "channels">>, <<"var", "channel_id">>, <<"lit", "messages">>, <<"var", "message_id">>, <<"lit", "status">>>>, place |-> "data", payload |-> "pick", pick |-> <<<<"status", "status">>>>, value |-> ""]
  @@ "syncApplicationMessageTemplate" :>  \* :2721-2728
       [formals |-> <<"params">>, destructures |-> TRUE, consumed |-> <<"channel_id", "template">>, rest |-> FALSE, method |-> "PUT", path |-> <<<<"lit", "channels">>, <<"var", "channel_id">>, <<"lit", "application_message_templates">>>>, place |-> "data", payload |-> "value", pick |-> <<>>, value |-> "template"]
  @@ "getComment" :>  \* :2731-2734
       [formals |-> <<"commentId">>, destructures |-> FALSE, consumed |-> <<>>, rest |-> FALSE, method |-> "GET", path |-> <<<<"lit", "comments">>, <<"var", "commentId">>>>, place |-> "none", payload |-> "none", pick |-> <<>>, value |-> ""]
  @@ "updateComment" :>  \* :2736-2740
       [formals |-> <<"params">>, destructures |-> TRUE, consumed |-> <<"comment_id", "body">>, rest |-> FALSE, method |-> "PATCH", path |-> <<<<"lit", "comments">>, <<"var", "comment_id">>>>, place |-> "data", payload |-> "pick", pick |-> <<<<"body", "body">>>>, value |-> ""]
  @@ "listCommentMentions" :>  \* :2742-2745
       [formals |-> <<"commentId">>, destructures |-> FALSE, consumed |-> <<>>, rest |-> FALSE, method |-> "GET", path |-> <<<<"lit", "comments">>, <<"var", "commentId">>, <<"lit", "mentions">>>>, place |-> "none", payload |-> "none", pick |-> <<>>, value |-> ""]
  @@ "addCommentReply" :>  \* :2747-2751
       [formals |-> <<"params">>, destructures |-> TRUE, consumed |-> <<"comment_id">>, rest |-> TRUE, method |-> "POST", path |-> <<<<"lit", "comments">>, <<"var", "comment_id">>, <<"lit", "replies">>>>, place |-> "data", payload |-> "rest", pick |-> <<>>, value |-> ""]
  @@ "listContactGroups" :>  \* :2754-2757
       [formals |-> <<"params">>, destructures |-> FALSE, consumed |-> <<>>, rest |-> FALSE, method |-> "GET", path |-> <<<<"lit", "contact_groups">>>>, place |-> "params", payload |-> "whole", pick |-> <<>>, value |-> ""]
  @@ "createContactGroup" :>  \* :2759-2762
       [formals |-> <<"params">>, destructures |-> FALSE, consumed |-> <<>>, rest |-> FALSE, method |-> "POST", path |-> <<<<"lit", "contact_groups">>>>, place |-> "data", payload |-> "whole", pick |-> <<>>, value |-> ""]
  @@ "deleteContactGroup" :>  \* :2764-2767
       [formals |-> <<"groupId">>, destructures |-> FALSE, consumed |-> <<>>, rest |-> FALSE, method |-> "DELETE", path |-> <<<<"lit", "contact_groups">>, <<"var", "groupId">>>>, place |-> "none", payload |-> "none", pick |-> <<>>, value |-> ""]
  @@ "listGroupContacts" :>  \* :2769-2772
       [formals |-> <<"groupId">>, destructures |-> FALSE, consumed |-> <<>>, rest |-> FALSE, method |-> "GET", path |-> <<<<"lit", "contact_groups">>, <<"var", "groupId">>, <<"lit", "contacts">>>>, place |-> "none", payload |-> "none", pick |-> <<>>, value |-> ""]
  @@ "addContactsToGroup" :>  \* :2774-2778
       [formals |-> <<"params">>, destructures |-> TRUE, consumed |-> <<"group_id", "contact_ids">>, rest |-> FALSE, method |-> "POST", path |-> <<<<"lit", "contact_groups">>, <<"var", "group_id">>, <<"lit", "contacts">>>>, place |-> "data", payload |-> "pick", pick |-> <<<<"contact_ids", "contact_ids">>>>, value |-> ""]
  @@ "removeContactsFromGroup" :>  \* :2780-2786
       [formals |-> <<"params">>, destructures |-> TRUE, consumed |-> <<"group_id", "contact_ids">>, rest |-> FALSE, method |-> "DELETE", path |-> <<<<"lit", "contact_groups">>, <<"var", "group_id">>, <<"lit", "contacts">>>>, place |-> "config.data", payload |-> "pick", pick |-> <<<<"contact_ids", "contact_ids">>>>, value |-> ""]
  @@ "listTeammateGroups" :>  \* :2788-2791
       [formals |-> <<"teammateId">>, destructures |-> FALSE, consumed |-> <<>>, rest |-> FALSE, method |-> "GET", path |-> <<<<"lit", "teammates">>, <<"var", "teammateId">>, <<"lit", "contact_groups">>>>, place |-> "none", payload |-> "none", pick |-> <<>>, value |-> ""]
  @@ "createTeammateGroup" :>  \* :2793-2797
       [formals |-> <<"params">>, destructures |-> TRUE, consumed |-> <<"teammate_id">>, rest |-> TRUE, method |-> "POST", path |-> <<<<"lit", "teammates">>, <<"var", "teammate_id">>, <<"lit", "contact_groups">>>>, place |-> "data", payload |-> "rest", pick |-> <<>>, value |-> ""]
  @@ "listTeamGroups" :>  \* :2799-2802
       [formals |-> <<"teamId">>, destructures |-> FALSE, consumed |-> <<>>, rest |-> FALSE, method |-> "GET", path |-> <<<<"lit", "teams">>, <<"var", "teamId">>, <<"lit", "contact_groups">>>>, place |-> "none", payload |-> "none", pick |-> <<>>, value |-> ""]
  @@ "createTeamGroup" :>  \* :2804-2808
       [formals |-> <<"params">>, destructures |-> TRUE, consumed |-> <<"team_id">>, rest |-> TRUE, method |-> "POST", path |-> <<<<"lit", "teams">>, <<"var", "team_id">>, <<"lit", "contact_groups">>>>, place |-> "data", payload |-> "rest", pick |-> <<>>, value |-> ""]
  @@ "listContactLists" :>  \* :2811-2814
       [formals |-> <<"params">>, destructures |-> FALSE, consumed |-> <<>>, rest |-> FALSE, method |-> "GET", path |-> <<<<"lit", "contact_lists">>>>, place |-> "params", payload |-> "whole", pick |-> <<>>, value |-> ""]
  @@ "createContactList" :>  \* :2816-2819
       [formals |-> <<"params">>, destructures |-> FALSE, consumed |-> <<>>, rest |-> FALSE, method |-> "POST", path |-> <<<<"lit", "contact_lists">>>>, place |-> "data", payload |-> "whole", pick |-> <<>>, value |-> ""]
  @@ "deleteContactList" :>  \* :2821-2824
       [formals |-> <<"listId">>, destructures |-> FALSE, consumed |-> <<>>, rest |-> FALSE, method |-> "DELETE", path |-> <<<<"lit", "contact_lists">>, <<"var", "listId">>>>, place |-> "none", payload |-> "none", pick |-> <<>>, value |-> ""]
  @@ "listContactListContacts" :>  \* :2826-2830
       [formals |-> <<"params">>, destructures |-> TRUE, consumed |-> <<"list_id">>, rest |-> TRUE, method |-> "GET", path |-> <<<<"lit", "contact_lists">>, <<"var", "list_id">>, <<"lit", "contacts">>>>, place |-> "params", payload |-> "rest", pick |-> <<>>, value |-> ""]
  @@ "addContactsToList" :>  \* :2832-2836
       [formals |-> <<"params">>, destructures |-> TRUE, consumed |-> <<"list_id", "contact_ids">>, rest |-> FALSE, method |-> "POST", path |-> <<<<"lit", "contact_lists">>, <<"var", "list_id">>, <<"lit", "contacts">>>>, place |-> "data", payload |-> "pick", pick |-> <<<<"contact_ids", "contact_ids">>>>, value |-> ""]
  @@ "removeContactsFromList" :>  \* :2838-2844
       [formals |-> <<"params">>, destructures |-> TRUE, consumed |-> <<"list_id", "contact_ids">>, rest |-> FALSE, method |-> "DELETE", path |-> <<<<"lit", "contact_lists">>, <<"var", "list_id">>, <<"lit", "contacts">>>>, place |-> "config.data", payload |-> "pick", pick |-> <<<<"contact_ids", "contact_ids">>>>, value |-> ""]
  @@ "listTeammateContactLists" :>  \* :2846-2849
       [formals |-> <<"teammateId">>, destructures |-> FALSE, consumed |-> <<>>, rest |-> FALSE, method |-> "GET", path |-> <<<<"lit", "teammates">>, <<"var", "teammateId">>, <<"lit", "contact_lists">>>>, place |-> "none", payload |-> "none", pick |-> <<>>, value |-> ""]
  @@ "createTeammateContactList" :>  \* :2851-2855
       [formals |-> <<"params">>, destructures |-> TRUE, consumed |-> <<"teammate_id">>, rest |-> TRUE, method |-> "POST", path |-> <<<<"lit", "teammates">>, <<"var", "teammate_id">>, <<"lit", "contact_lists">>>>, place |-> "data", payload |-> "rest", pick |-> <<>>, value |-> ""]
  @@ "listTeamContactLists" :>  \* :2857-2860
       [formals |-> <<"teamId">>, destructures |-> FALSE, consumed |-> <<>>, rest |-> FALSE, method |-> "GET", path |-> <<<<"lit", "teams">>, <<"var", "teamId">>, <<"lit", "contact_lists">>>>, place |-> "none", payload |-> "none", pick |-> <<>>, value |-> ""]
  @@ "createTeamContactList" :>  \* :2862-2866
       [formals |-> <<"params">>, destructures |-> TRUE, consumed |-> <<"team_id">>, rest |-> TRUE, method |-> "POST", path |-> <<<<"lit", "teams">>, <<"var", "team_id">>, <<"lit", "contact_lists">>>>, place |-> "data", payload |-> "rest", pick |-> <<>>, value |-> ""]
  @@ "createDiscussionConversation" :>  \* :2869-2872
       [formals |-> <<"params">>, destructures |-> FALSE, consumed |-> <<>>, rest |-> FALSE, method |-> "POST", path |-> <<<<"lit", "conversations">>>>, place |-> "data", payload |-> "whole", pick |-> <<>>, value |-> ""]
  @@ "updateConversationAssignee" :>  \* :2874-2880
       [formals |-> <<"params">>, destructures |-> TRUE, consumed |-> <<"conversation_id", "assignee_id">>, rest |-> FALSE, method |-> "PUT", path |-> <<<<"lit", "conversations">>, <<"var", "conversation_id">>, <<"lit", "assignee">>>>, place |-> "data", payload |-> "pick", pick |-> <<<<"assignee_id", "assignee_id">>>>, value |-> ""]
  @@ "listConversationEvents" :>  \* :2882-2888
       [formals |-> <<"params">>, destructures |-> TRUE, consumed |-> <<"conversation_id">>, rest |-> TRUE, method |-> "GET", path |-> <<<<"lit", "conversations">>, <<"var", "conversation_id">>, <<"lit", "events">>>>, place |-> "params", payload |-> "rest", pick |-> <<>>, value |-> ""]
  @@ "listConversationFollowers" :>  \* :2890-2893
       [formals |-> <<"conversationId">>, destructures |-> FALSE, consumed |-> <<>>, rest |-> FALSE, method |-> "GET", path |-> <<<<"lit", "conversations">>, <<"var", "conversationId">>, <<"lit", "followers">>>>, place |-> "none", payload |-> "none", pick |-> <<>>, value |-> ""]
  @@ "addConversationFollowers" :>  \* :2895-2901
       [formals |-> <<"params">>, destructures |-> TRUE, consumed |-> <<"conversation_id", "teammate_ids">>, rest |-> FALSE, method |-> "POST", path |-> <<<<"lit", "conversations">>, <<"var", "conversation_id">>, <<"lit", "followers">>>>, place |-> "data", payload |-> "pick", pick |-> <<<<"teammate_ids", "teammate_ids">>>>, value |-> ""]
  @@ "deleteConversationFollowers" :>  \* :2903-2909
       [formals |-> <<"params">>, destructures |-> TRUE, consumed |-> <<"conversation_id", "teammate_ids">>, rest |-> FALSE, method |-> "DELETE", path |-> <<<<"lit", "conversations">>, <<"var", "conversation_id">>, <<"lit", "followers">>>>, place |-> "config.data", payload |-> "pick", pick |-> <<<<"teammate_ids", "teammate_ids">>>>, value |-> ""]
  @@ "listConversationInboxes" :>  \* :2911-2914
       [formals |-> <<"conversationId">>, destructures |-> FALSE, consumed |-> <<>>, rest |-> FALSE, method |-> "GET", path |-> <<<<"lit", "conversations">>, <<"var", "conversationId">>, <<"lit", "inboxes">>>>, place |-> "none", payload |-> "none", pick |-> <<>>, value |-> ""]
  @@ "addConversationLink" :>  \* :2916-2920
       [formals |-> <<"params">>, destructures |-> TRUE, consumed |-> <<"conversation_id", "link_ids">>, rest |-> FALSE, method |-> "POST", path |-> <<<<"lit", "conversations">>, <<"var", "conversation_id">>, <<"lit", "links">>>>, place |-> "data", payload |-> "pick", pick |-> <<<<"link_ids", "link_ids">>>>, value |-> ""]
  @@ "removeConversationLinks" :>  \* :2922-2928
       [formals |-> <<"params">>, destructures |-> TRUE, consumed |-> <<"conversation_id", "link_ids">>, rest |-> FALSE, method |-> "DELETE", path |-> <<<<"lit", "conversations">>, <<"var", "conversation_id">>, <<"lit", "links">>>>, place |-> "config.data", payload |-> "pick", pick |-> <<<<"link_ids", "link_ids">>>>, value |-> ""]
  @@ "updateConversationReminders" :>  \* :2930-2934
       [formals |-> <<"params">>, destructures |-> TRUE, consumed |-> <<"conversation_id">>, rest |-> TRUE, method |-> "PATCH", path |-> <<<<"lit", "conversations">>, <<"var", "conversation_id">>, <<"lit", "reminders">>>>, place |-> "data", payload |-> "rest", pick |-> <<>>, value |-> ""]
  @@ "addConversationTag" :>  \* :2936-2940
       [formals |-> <<"params">>, destructures |-> TRUE, consumed |-> <<"conversation_id", "tag_ids">>, rest |-> FALSE, method |-> "POST", path |-> <<<<"lit", "conversations">>, <<"var", "conversation_id">>, <<"lit", "tags">>>>, place |-> "data", payload |-> "pick", pick |-> <<<<"tag_ids", "tag_ids">>>>, value |-> ""]
  @@ "removeConversationTag" :>  \* :2942-2948
       [formals |-> <<"params">>, destructures |-> TRUE, consumed |-> <<"conversation_id", "tag_ids">>, rest |-> FALSE, method |-> "DELETE", path |-> <<<<"lit", "conversations">>, <<"var", "conversation_id">>, <<"lit", "tags">>>>, place |-> "config.data", payload |-> "pick", pick |-> <<<<"tag_ids", "tag_ids">>>>, value |-> ""]
  @@ "listAccountCustomFields" :>  \* :2951-2954
       [formals |-> <<>>, destructures |-> FALSE, consumed |-> <<>>, rest |-> FALSE, method |-> "GET", path |-> <<<<"lit", "accounts">>, <<"lit", "custom_fields">>>>, place |-> "none", payload |-> "none", pick |-> <<>>, value |-> ""]
  @@ "listContactCustomFields" :>  \* :2956-2959
       [formals |-> <<>>, destructures |-> FALSE, consumed |-> <<>>, rest |-> FALSE, method |-> "GET", path |-> <<<<"lit", "contacts">>, <<"lit", "custom_fields">>>>, place |-> "none", payload |-> "none", pick |-> <<>>, value |-> ""]
  @@ "listConversationCustomFields" :>  \* :2961-2964
       [formals |-> <<>>, destructures |-> FALSE, consumed |-> <<>>, rest |-> FALSE, method |-> "GET", path |-> <<<<"lit", "conversations">>, <<"lit", "custom_fields">>>>, place |-> "none", payload |-> "none", pick |-> <<>>, value |-> ""]
  @@ "listCustomFields" :>  \* :2966-2969
       [formals |-> <<>>, destructures |-> FALSE, consumed |-> <<>>, rest |-> FALSE, method |-> "GET", path |-> <<<<"lit", "custom_fields">>>>, place |-> "none", payload |-> "none", pick |-> <<>>, value |-> ""]
  @@ "listInboxCustomFields" :>  \* :2971-2974
       [formals |-> <<>>, destructures |-> FALSE, consumed |-> <<>>, rest |-> FALSE, method |-> "GET", path |-> <<<<"lit", "inboxes">>, <<"lit", "custom_fields">>>>, place |-> "none", payload |-> "none", pick |-> <<>>, value |-> ""]
  @@ "listLinkCustomFields" :>  \* :2976-2979
       [formals |-> <<>>, destructures |-> FALSE, consumed |-> <<>>, rest |-> FALSE, method |-> "GET", path |-> <<<<"lit", "links">>, <<"lit", "custom_fields">>>>, place |-> "none", payload |-> "none", pick |-> <<>>, value |-> ""]
  @@ "listTeammateCustomFields" :>  \* :2981-2984
       [formals |-> <<>>, destructures |-> FALSE, consumed |-> <<>>, rest |-> FALSE, method |-> "GET", path |-> <<<<"lit", "teammates">>, <<"lit", "custom_fields">>>>, place |-> "none", payload |-> "none", pick |-> <<>>, value |-> ""]
  @@ "createDraft" :>  \* :2987-2990
       [formals |-> <<"params">>, destructures |-> FALSE, consumed |-> <<>>, rest |-> FALSE, method |-> "POST", path |-> <<<<"lit", "drafts">>>>, place |-> "data", payload |-> "whole", pick |-> <<>>, value |-> ""]
  @@ "listConversationDrafts" :>  \* :2992-2995
       [formals |-> <<"conversationId">>, destructures |-> FALSE, consumed |-> <<>>, rest |-> FALSE, method |-> "GET", path |-> <<<<"lit", "conversations">>, <<"var", "conversationId">>, <<"lit", "drafts">>>>, place |-> "none", payload |-> "none", pick |-> <<>>, value |-> ""]
  @@ "createDraftReply" :>  \* :2997-3001
       [formals |-> <<"params">>, destructures |-> TRUE, consumed |-> <<"channel_id">>, rest |-> TRUE, method |-> "POST", path |-> <<<<"lit", "channels">>, <<"var", "channel_id">>, <<"lit", "drafts">>>>, place |-> "data", payload |-> "rest", pick |-> <<>>, value |-> ""]
  @@ "deleteDraft" :>  \* :3003-3007
       [formals |-> <<"params">>, destructures |-> TRUE, consumed |-> <<"draft_id", "version">>, rest |-> FALSE, method |-> "DELETE", path |-> <<<<"lit", "drafts">>, <<"var", "draft_id">>>>, place |-> "config.data", payload |-> "pick", pick |-> <<<<"version", "version">>>>, value |-> ""]
  @@ "editDraft" :>  \* :3009-3013
       [formals |-> <<"params">>, destructures |-> TRUE, consumed |-> <<"draft_id", "version">>, rest |-> TRUE, method |-> "PATCH", path |-> <<<<"lit", "drafts">>, <<"var", "draft_id">>>>, place |-> "data", payload |-> "pick+rest", pick |-> <<<<"version", "version">>>>, value |-> ""]
  @@ "listEvents" :>  \* :3016-3019
       [formals |-> <<"params">>, destructures |-> FALSE, consumed |-> <<>>, rest |-> FALSE, method |-> "GET", path |-> <<<<"lit", "events">>>>, place |-> "params", payload |-> "whole", pick |-> <<>>, value |-> ""]
  @@ "getEvent" :>  \* :3021-3024
       [formals |-> <<"eventId">>, destructures |-> FALSE, consumed |-> <<>>, rest |-> FALSE, method |-> "GET", path |-> <<<<"lit", "events">>, <<"var", "eventId">>>>, place |-> "none", payload |-> "none", pick |-> <<>>, value |-> ""]
  @@ "createInbox" :>  \* :3027-3030
       [formals |-> <<"params">>, destructures |-> FALSE, consumed |-> <<>>, rest |-> FALSE, method |-> "POST", path |-> <<<<"lit", "inboxes">>>>, place |-> "data", payload |-> "whole", pick |-> <<>>, value |-> ""]
  @@ "listInboxChannels" :>  \* :3032-3035
       [formals |-> <<"inboxId">>, destructures |-> FALSE, consumed |-> <<>>, rest |-> FALSE, method |-> "GET", path |-> <<<<"lit", "inboxes">>, <<"var", "inboxId">>, <<"lit", "channels">>>>, place |-> "none", payload |-> "none", pick |-> <<>>, value |-> ""]
  @@ "listInboxConversations" :>  \* :3037-3043
       [formals |-> <<"params">>, destructures |-> TRUE, consumed |-> <<"inbox_id">>, rest |-> TRUE, method |-> "GET", path |-> <<<<"lit", "inboxes">>, <<"var", "inbox_id">>, <<"lit", "conversations">>>>, place |-> "params", payload |-> "rest", pick |-> <<>>, value |-> ""]
  @@ "listInboxAccess" :>  \* :3045-3048
       [formals |-> <<"inboxId">>, destructures |-> FALSE, consumed |-> <<>>, rest |-> FALSE, method |-> "GET", path |-> <<<<"lit", "inboxes">>, <<"var", "inboxId">>, <<"lit", "access">>>>, place |-> "none", payload |-> "none", pick |-> <<>>, value |-> ""]
  @@ "addInboxAccess" :>  \* :3050-3054
       [formals |-> <<"params">>, destructures |-> TRUE, consumed |-> <<"inbox_id", "teammate_ids">>, rest |-> FALSE, method |-> "POST", path |-> <<<<"lit", "inboxes">>, <<"var", "inbox_id">>, <<"lit", "access">>>>, place |-> "data", payload |-> "pick", pick |-> <<<<"teammate_ids", "teammate_ids">>>>, value |-> ""]
  @@ "removeInboxAccess" :>  \* :3056-3062
       [formals |-> <<"params">>, destructures |-> TRUE, consumed |-> <<"inbox_id", "teammate_ids">>, rest |-> FALSE, method |-> "DELETE", path |-> <<<<"lit", "inboxes">>, <<"var", "inbox_id">>, <<"lit", "access">>>>, place |-> "config.data", payload |-> "pick", pick |-> <<<<"teammate_ids", "teammate_ids">>>>, value |-> ""]
  @@ "listTeamInboxes" :>  \* :3064-3067
       [formals |-> <<"teamId">>, destructures |-> FALSE, consumed |-> <<>>, rest |-> FALSE, method |-> "GET", path |-> <<<<"lit", "teams">>, <<"var", "teamId">>, <<"lit", "inboxes">>>>, place |-> "none", payload |-> "none", pick |-> <<>>, value |-> ""]
  @@ "createTeamInbox" :>  \* :3069-3073
       [formals |-> <<"params">>, destructures |-> TRUE, consumed |-> <<"team_id">>, rest |-> TRUE, method |-> "POST", path |-> <<<<"lit", "teams">>, <<"var", "team_id">>, <<"lit", "inboxes">>>>, place |-> "data", payload |-> "rest", pick |-> <<>>, value |-> ""]
  @@ "receiveCustomMessage" :>  \* :3076-3080
       [formals |-> <<"params">>, destructures |-> TRUE, consumed |-> <<"channel_id">>, rest |-> TRUE, method |-> "POST", path |-> <<<<"lit", "channels">>, <<"var", "channel_id">>, <<"lit", "incoming_messages">>>>, place |-> "data", payload |-> "rest", pick |-> <<>>, value |-> ""]
  @@ "importMessage" :>  \* :3082-3086
       [formals |-> <<"params">>, destructures |-> TRUE, consumed |-> <<"channel_id">>, rest |-> TRUE, method |-> "POST", path |-> <<<<"lit", "channels">>, <<"var", "channel_id">>, <<"lit", "import">>>>, place |-> "data", payload |-> "rest", pick |-> <<>>, value |-> ""]
  @@ "getMessageSeenStatus" :>  \* :3088-3091
       [formals |-> <<"messageId">>, destructures |-> FALSE, consumed |-> <<>>, rest |-> FALSE, method |-> "GET", path |-> <<<<"lit", "messages">>, <<"var", "messageId">>, <<"lit", "seen">>>>, place |-> "none", payload |-> "none", pick |-> <<>>, value |-> ""]
  @@ "markMessageSeen" :>  \* :3093-3096
       [formals |-> <<"messageId">>, destructures |-> FALSE, consumed |-> <<>>, rest |-> FALSE, method |-> "POST", path |-> <<<<"lit", "messages">>, <<"var", "messageId">>, <<"lit", "seen">>>>, place |-> "none", payload |-> "none", pick |-> <<>>, value |-> ""]
  @@ "listMessageTemplateFolders" :>  \* :3099-3102
       [formals |-> <<"params">>, destructures |-> FALSE, consumed |-> <<>>, rest |-> FALSE, method |-> "GET", path |-> <<<<"lit", "message_template_folders">>>>, place |-> "params", payload |-> "whole", pick |-> <<>>, value |-> ""]
  @@ "createMessageTemplateFolder" :>  \* :3104-3107
       [formals |-> <<"params">>, destructures |-> FALSE, consumed |-> <<>>, rest |-> FALSE, method |-> "POST", path |-> <<<<"lit", "message_template_folders">>>>, place |-> "data", payload |-> "whole", pick |-> <<>>, value |-> ""]
  @@ "getMessageTemplateFolder" :>  \* :3109-3112
       [formals |-> <<"folderId">>, destructures |-> FALSE, consumed |-> <<>>, rest |-> FALSE, method |-> "GET", path |-> <<<<"lit", "message_template_folders">>, <<"var", "folderId">>>>, place |-> "none", payload |-> "none", pick |-> <<>>, value |-> ""]
  @@ "updateMessageTemplateFolder" :>  \* :3114-3118
       [formals |-> <<"params">>, destructures |-> TRUE, consumed |-> <<"folder_id">>, rest |-> TRUE, method |-> "PATCH", path |-> <<<<"lit", "message_template_folders">>, <<"var", "folder_id">>>>, place |-> "data", payload |-> "rest", pick |-> <<>>, value |-> ""]
  @@ "deleteMessageTemplateFolder" :>  \* :3120-3123
       [formals |-> <<"folderId">>, destructures |-> FALSE, consumed |-> <<>>, rest |-> FALSE, method |-> "DELETE", path |-> <<<<"lit", "message_template_folders">>, <<"var", "folderId">>>>, place |-> "none", payload |-> "none", pick |-> <<>>, value |-> ""]
  @@ "listChildFolders" :>  \* :3125-3128
       [formals |-> <<"folderId">>, destructures |-> FALSE, consumed |-> <<>>, rest |-> FALSE, method |-> "GET", path |-> <<<<"lit", "message_template_folders">>, <<"var", "folderId">>, <<"lit", "children">>>>, place |-> "none", payload |-> "none", pick |-> <<>>, value |-> ""]
  @@ "createChildFolder" :>  \* :3130-3137
       [formals |-> <<"params">>, destructures |-> TRUE, consumed |-> <<"folder_id">>, rest |-> TRUE, method |-> "POST", path |-> <<<<"lit", "message_template_folders">>, <<"var", "folder_id">>, <<"lit", "children">>>>, place |-> "data", payload |-> "rest", pick |-> <<>>, value |-> ""]
  @@ "listTeammateFolders" :>  \* :3139-3142
       [formals |-> <<"teammateId">>, destructures |-> FALSE, consumed |-> <<>>, rest |-> FALSE, method |-> "GET", path |-> <<<<"lit", "teammates">>, <<"var", "teammateId">>, <<"lit", "message_template_folders">>>>, place |-> "none", payload |-> "none", pick |-> <<>>, value |-> ""]
  @@ "createTeammateFolder" :>  \* :3144-3151
       [formals |-> <<"params">>, destructures |-> TRUE, consumed |-> <<"teammate_id">>, rest |-> TRUE, method |-> "POST", path |-> <<<<"lit", "teammates">>, <<"var", "teammate_id">>, <<"lit", "message_template_folders">>>>, place |-> "data", payload |-> "rest", pick |-> <<>>, value |-> ""]
  @@ "listTeamFolders" :>  \* :3153-3156
       [formals |-> <<"teamId">>, destructures |-> FALSE, consumed |-> <<>>, rest |-> FALSE, method |-> "GET", path |-> <<<<"lit", "teams">>, <<"var", "teamId">>, <<"lit", "message_template_folders">>>>, place |-> "none", payload |-> "none", pick |-> <<>>, value |-> ""]
  @@ "listMessageTemplates" :>  \* :3159-3162
       [formals |-> <<"params">>, destructures |-> FALSE, consumed |-> <<>>, rest |-> FALSE, method |-> "GET", path |-> <<<<"lit", "message_templates">>>>, place |-> "params", payload |-> "whole", pick |-> <<>>, value |-> ""]
  @@ "createMessageTemplate" :>  \* :3164-3167
       [formals |-> <<"params">>, destructures |-> FALSE, consumed |-> <<>>, rest |-> FALSE, method |-> "POST", path |-> <<<<"lit", "message_templates">>>>, place |-> "data", payload |-> "whole", pick |-> <<>>, value |-> ""]
  @@ "getMessageTemplate" :>  \* :3169-3172
       [formals |-> <<"templateId">>, destructures |-> FALSE, consumed |-> <<>>, rest |-> FALSE, method |-> "GET", path |-> <<<<"lit", "message_templates">>, <<"var", "templateId">>>>, place |-> "none", payload |-> "none", pick |-> <<>>, value |-> ""]
  @@ "updateMessageTemplate" :>  \* :3174-3178
       [formals |-> <<"params">>, destructures |-> TRUE, consumed |-> <<"template_id">>, rest |-> TRUE, method |-> "PATCH", path |-> <<<<"lit", "message_templates">>, <<"var", "template_id">>>>, place |-> "data", payload |-> "rest", pick |-> <<>>, value |-> ""]
  @@ "deleteMessageTemplate" :>  \* :3180-3183
       [formals |-> <<"templateId">>, destructures |-> FALSE, consumed |-> <<>>, rest |-> FALSE, method |-> "DELETE", path |-> <<<<"lit", "message_templates">>, <<"var", "templateId">>>>, place |-> "none", payload |-> "none", pick |-> <<>>, value |-> ""]
  @@ "listChildTemplates" :>  \* :3185-3188
       [formals |-> <<"templateId">>, destructures |-> FALSE, consumed |-> <<>>, rest |-> FALSE, method |-> "GET", path |-> <<<<"lit", "message_templates">>, <<"var", "templateId">>, <<"lit", "children">>>>, place |-> "none", payload |-> "none", pick |-> <<>>, value |-> ""]
  @@ "createChildTemplate" :>  \* :3190-3194
       [formals |-> <<"params">>, destructures |-> TRUE, consumed |-> <<"template_id">>, rest |-> TRUE, method |-> "POST", path |-> <<<<"lit", "message_templates">>, <<"var", "template_id">>, <<"lit", "children">>>>, place |-> "data", payload |-> "rest", pick |-> <<>>, value |-> ""]
  @@ "getTag" :>  \* :3197-3200
       [formals |-> <<"tagId">>, destructures |-> FALSE, consumed |-> <<>>, rest |-> FALSE, method |-> "GET", path |-> <<<<"lit", "tags">>, <<"var", "tagId">>>>, place |-> "none", payload |-> "none", pick |-> <<>>, value |-> ""]
  @@ "updateTag" :>  \* :3202-3206
       [formals |-> <<"params">>, destructures |-> TRUE, consumed |-> <<"tag_id">>, rest |-> TRUE, method |-> "PATCH", path |-> <<<<"lit", "tags">>, <<"var", "tag_id">>>>, place |-> "data", payload |-> "rest", pick |-> <<>>, value |-> ""]
  @@ "deleteTag" :>  \* :3208-3211
       [formals |-> <<"tagId">>, destructures |-> FALSE, consumed |-> <<>>, rest |-> FALSE, method |-> "DELETE", path |-> <<<<"lit", "tags">>, <<"var", "tagId">>>>, place |-> "none", payload |-> "none", pick |-> <<>>, value |-> ""]
  @@ "listTagChildren" :>  \* :3213-3216
       [formals |-> <<"tagId">>, destructures |-> FALSE, consumed |-> <<>>, rest |-> FALSE, method |-> "GET", path |-> <<<<"lit", "tags">>, <<"var", "tagId">>, <<"lit", "children">>>>, place |-> "none", payload |-> "none", pick |-> <<>>, value |-> ""]
  @@ "createChildTag" :>  \* :3218-3222
       [formals |-> <<"params">>, destructures |-> TRUE, consumed |-> <<"tag_id">>, rest |-> TRUE, method |-> "POST", path |-> <<<<"lit", "tags">>, <<"var", "tag_id">>, <<"lit", "children">>>>, place |-> "data", payload |-> "rest", pick |-> <<>>, value |-> ""]
  @@ "listTaggedConversations" :>  \* :3224-3228
       [formals |-> <<"params">>, destructures |-> TRUE, consumed |-> <<"tag_id">>, rest |-> TRUE, method |-> "GET", path |-> <<<<"lit", "tags">>, <<"var", "tag_id">>, <<"lit", "conversations">>>>, place |-> "params", payload |-> "rest", pick |-> <<>>, value |-> ""]
  @@ "listTeammateTags" :>  \* :3230-3233
       [formals |-> <<"teammateId">>, destructures |-> FALSE, consumed |-> <<>>, rest |-> FALSE, method |-> "GET", path |-> <<<<"lit", "teammates">>, <<"var", "teammateId">>, <<"lit", "tags">>>>, place |-> "none", payload |-> "none", pick |-> <<>>, value |-> ""]
  @@ "createTeammateTag" :>  \* :3235-3239
       [formals |-> <<"params">>, destructures |-> TRUE, consumed |-> <<"teammate_id">>, rest |-> TRUE, method |-> "POST", path |-> <<<<"lit", "teammates">>, <<"var", "teammate_id">>, <<"lit", "tags">>>>, place |-> "data", payload |-> "rest", pick |-> <<>>, value |-> ""]
  @@ "listTeamTags" :>  \* :3241-3244
       [formals |-> <<"teamId">>, destructures |-> FALSE, consumed |-> <<>>, rest |-> FALSE, method |-> "GET", path |-> <<<<"lit", "teams">>, <<"var", "teamId">>, <<"lit", "tags">>>>, place |-> "none", payload |-> "none", pick |-> <<>>, value |-> ""]
  @@ "createTeamTag" :>  \* :3246-3250
       [formals |-> <<"params">>, destructures |-> TRUE, consumed |-> <<"team_id">>, rest |-> TRUE, method |-> "POST", path |-> <<<<"lit", "teams">>, <<"var", "team_id">>, <<"lit", "tags">>>>, place |-> "data", payload |-> "rest", pick |-> <<>>, value |-> ""]
  @@ "updateTeammate" :>  \* :3253-3257
       [formals |-> <<"params">>, destructures |-> TRUE, consumed |-> <<"teammate_id">>, rest |-> TRUE, method |-> "PATCH", path |-> <<<<"lit", "teammates">>, <<"var", "teammate_id">>>>, place |-> "data", payload |-> "rest", pick |-> <<>>, value |-> ""]
  @@ "listTeammateConversations" :>  \* :3259-3265
       [formals |-> <<"params">>, destructures |-> TRUE, consumed |-> <<"teammate_id">>, rest |-> TRUE, method |-> "GET", path |-> <<<<"lit", "teammates">>, <<"var", "teammate_id">>, <<"lit", "conversations">>>>, place |-> "params", payload |-> "rest", pick |-> <<>>, value |-> ""]
  @@ "listTeammateInboxes" :>  \* :3267-3270
       [formals |-> <<"teammateId">>, destructures |-> FALSE, consumed |-> <<>>, rest |-> FALSE, method |-> "GET", path |-> <<<<"lit", "teammates">>, <<"var", "teammateId">>, <<"lit", "inboxes">>>>, place |-> "none", payload |-> "none", pick |-> <<>>, value |-> ""]

\* The endpoint tables of FRONTAPP_API_ENDPOINTS.md (lines 27-581): the method
\* and path template documented for each operation; <<"id", n>> is a named
\* segment {n} of the template. The row of each operation is noted beside it.
Declared ==
     "list_conversations" :> [method |-> "GET", path |-> <<<<"lit", "conversations">>>>]  \* :214 List conversations
  @@ "get_conversation" :> [method |-> "GET", path |-> <<<<"lit", "conversations">>, <<"id", "id">>>>]  \* :217 Get conversation
  @@ "search_conversations" :> [method |-> "GET", path |-> <<<<"lit", "conversations">>, <<"lit", "search">>>>]  \* :216 Search conversations
  @@ "update_conversation" :> [method |-> "PATCH", path |-> <<<<"lit", "conversations">>, <<"id", "id">>>>]  \* :218 Update conversation
  @@ "list_conversation_messages" :> [method |-> "GET", path |-> <<<<"lit", "conversations">>, <<"id", "id">>, <<"lit", "messages">>>>]  \* :242 List messages
  @@ "get_message" :> [method |-> "GET", path |-> <<<<"lit", "messages">>, <<"id", "id">>>>]  \* :420 Get message
  @@ "send_message" :> [method |-> "POST", path |-> <<<<"lit", "channels">>, <<"id", "id">>, <<"lit", "messages">>>>]  \* :417 Create message
  @@ "reply_to_conversation" :> [method |-> "POST", path |-> <<<<"lit", "conversations">>, <<"id", "id">>, <<"lit", "messages">>>>]  \* :243 Create message reply
  @@ "list_contacts" :> [method |-> "GET", path |-> <<<<"lit", "contacts">>>>]  \* :132 List contacts
  @@ "get_contact" :> [method |-> "GET", path |-> <<<<"lit", "contacts">>, <<"id", "id">>>>]  \* :134 Get contact
  @@ "create_contact" :> [method |-> "POST", path |-> <<<<"lit", "contacts">>>>]  \* :133 Create contact
  @@ "update_contact" :> [method |-> "PATCH", path |-> <<<<"lit", "contacts">>, <<"id", "id">>>>]  \* :135 Update contact
  @@ "list_teammates" :> [method |-> "GET", path |-> <<<<"lit", "teammates">>>>]  \* :560 List teammates
  @@ "get_teammate" :> [method |-> "GET", path |-> <<<<"lit", "teammates">>, <<"id", "id">>>>]  \* :561 Get teammate
  @@ "list_tags" :> [method |-> "GET", path |-> <<<<"lit", "tags">>>>]  \* :532 List company tags
  @@ "create_tag" :> [method |-> "POST", path |-> <<<<"lit", "tags">>>>]  \* :533 Create company tag
  @@ "list_inboxes" :> [method |-> "GET", path |-> <<<<"lit", "inboxes">>>>]  \* :327 List inboxes
  @@ "get_inbox" :> [method |-> "GET", path |-> <<<<"lit", "inboxes">>, <<"id", "id">>>>]  \* :329 Get inbox
  @@ "list_conversation_comments" :> [method |-> "GET", path |-> <<<<"lit", "conversations">>, <<"id", "id">>, <<"lit", "comments">>>>]  \* :116 List conversation comments
  @@ "add_comment" :> [method |-> "POST", path |-> <<<<"lit", "conversations">>, <<"id", "id">>, <<"lit", "comments">>>>]  \* :117 Add comment
  @@ "get_analytics" :> [method |-> "GET", path |-> <<<<"lit", "analytics">>>>]  \* :52 Get analytics (basic)
  @@ "list_accounts" :> [method |-> "GET", path |-> <<<<"lit", "accounts">>>>]  \* :31 List accounts
  @@ "create_account" :> [method |-> "POST", path |-> <<<<"lit", "accounts">>>>]  \* :32 Create account
  @@ "get_account" :> [method |-> "GET", path |-> <<<<"lit", "accounts">>, <<"id", "id">>>>]  \* :33 Get account
  @@ "update_account" :> [method |-> "PATCH", path |-> <<<<"lit", "accounts">>, <<"id", "id">>>>]  \* :34 Update account
  @@ "delete_account" :> [method |-> "DELETE", path |-> <<<<"lit", "accounts">>, <<"id", "id">>>>]  \* :35 Delete account
  @@ "list_account_contacts" :> [method |-> "GET", path |-> <<<<"lit", "accounts">>, <<"id", "id">>, <<"lit", "contacts">>>>]  \* :36 List account contacts
  @@ "add_contact_to_account" :> [method |-> "POST", path |-> <<<<"lit", "accounts">>, <<"id", "id">>, <<"lit", "contacts">>>>]  \* :37 Add contact to account
  @@ "remove_contact_from_account" :> [method |-> "DELETE", path |-> <<<<"lit", "accounts">>, <<"id", "id">>, <<"lit", "contacts">>>>]  \* :38 Remove contact from account
  @@ "delete_contact" :> [method |-> "DELETE", path |-> <<<<"lit", "contacts">>, <<"id", "id">>>>]  \* :136 Delete contact
  @@ "merge_contacts" :> [method |-> "POST", path |-> <<<<"lit", "contacts">>, <<"lit", "merge">>>>]  \* :137 Merge contacts
  @@ "list_contact_conversations" :> [method |-> "GET", path |-> <<<<"lit", "contacts">>, <<"id", "id">>, <<"lit", "conversations">>>>]  \* :143 List contact conversations
  @@ "list_contact_notes" :> [method |-> "GET", path |-> <<<<"lit", "contacts">>, <<"id", "id">>, <<"lit", "notes">>>>]  \* :144 List notes
  @@ "add_contact_note" :> [method |-> "POST", path |-> <<<<"lit", "contacts">>, <<"id", "id">>, <<"lit", "notes">>>>]  \* :145 Add note
  @@ "add_contact_handle" :> [method |-> "POST", path |-> <<<<"lit", "contacts">>, <<"id", "id">>, <<"lit", "handles">>>>]  \* :151 Add contact handle
  @@ "delete_contact_handle" :> [method |-> "DELETE", path |-> <<<<"lit", "contacts">>, <<"id", "id">>, <<"lit", "handles">>>>]  \* :152 Delete contact handle
  @@ "list_teammate_contacts" :> [method |-> "GET", path |-> <<<<"lit", "teammates">>, <<"id", "id">>, <<"lit", "contacts">>>>]  \* :158 List teammate contacts
  @@ "create_teammate_contact" :> [method |-> "POST", path |-> <<<<"lit", "teammates">>, <<"id", "id">>, <<"lit", "contacts">>>>]  \* :159 Create teammate contact
  @@ "list_team_contacts" :> [method |-> "GET", path |-> <<<<"lit", "teams">>, <<"id", "id">>, <<"lit", "contacts">>>>]  \* :160 List team contacts
  @@ "list_channels" :> [method |-> "GET", path |-> <<<<"lit", "channels">>>>]  \* :81 List channels
  @@ "create_channel" :> [method |-> "POST", path |-> <<<<"lit", "channels">>>>]  \* :82 Create channel
  @@ "get_channel" :> [method |-> "GET", path |-> <<<<"lit", "channels">>, <<"id", "id">>>>]  \* :83 Get channel
  @@ "update_channel" :> [method |-> "PATCH", path |-> <<<<"lit", "channels">>, <<"id", "id">>>>]  \* :84 Update channel
  @@ "validate_channel" :> [method |-> "POST", path |-> <<<<"lit", "channels">>, <<"id", "id">>, <<"lit", "validate">>>>]  \* :85 Validate channel
  @@ "list_teammate_channels" :> [method |-> "GET", path |-> <<<<"lit", "teammates">>, <<"id", "id">>, <<"lit", "channels">>>>]  \* :86 List teammate channels
  @@ "list_team_channels" :> [method |-> "GET", path |-> <<<<"lit", "teams">>, <<"id", "id">>, <<"lit", "channels">>>>]  \* :87 List team channels
  @@ "sync_inbound_message" :> [method |-> "POST", path |-> <<<<"lit", "channels">>, <<"id", "id">>, <<"lit", "inbound_messages">>>>]  \* :93 Sync inbound message
  @@ "sync_outbound_message" :> [method |-> "POST", path |-> <<<<"lit", "channels">>, <<"id", "id">>, <<"lit", "outbound_messages">>>>]  \* :94 Sync outbound message
  @@ "update_external_message_status" :> [method |-> "PUT", path |-> <<<<"lit", "channels">>, <<"id", "id">>, <<"lit", "messages">>, <<"id", "msg_id">>, <<"lit", "status">>>>]  \* :95 Update external message status
  @@ "sync_application_message_template" :> [method |-> "PUT", path |-> <<<<"lit", "channels">>, <<"id", "id">>, <<"lit", "application_message_templates">>>>]  \* :101 Sync application message template
  @@ "get_comment" :> [method |-> "GET", path |-> <<<<"lit", "comments">>, <<"id", "id">>>>]  \* :113 Get comment
  @@ "update_comment" :> [method |-> "PATCH", path |-> <<<<"lit", "comments">>, <<"id", "id">>>>]  \* :114 Update comment
  @@ "list_comment_mentions" :> [method |-> "GET", path |-> <<<<"lit", "comments">>, <<"id", "id">>, <<"lit", "mentions">>>>]  \* :115 List comment mentions
  @@ "add_comment_reply" :> [method |-> "POST", path |-> <<<<"lit", "comments">>, <<"id", "id">>, <<"lit", "replies">>>>]  \* :118 Add comment reply
  @@ "list_contact_groups" :> [method |-> "GET", path |-> <<<<"lit", "contact_groups">>>>]  \* :172 List groups
  @@ "create_contact_group" :> [method |-> "POST", path |-> <<<<"lit", "contact_groups">>>>]  \* :173 Create group
  @@ "delete_contact_group" :> [method |-> "DELETE", path |-> <<<<"lit", "contact_groups">>, <<"id", "id">>>>]  \* :174 Delete group
  @@ "list_group_contacts" :> [method |-> "GET", path |-> <<<<"lit", "contact_groups">>, <<"id", "id">>, <<"lit", "contacts">>>>]  \* :175 List contacts in group
  @@ "add_contacts_to_group" :> [method |-> "POST", path |-> <<<<"lit", "contact_groups">>, <<"id", "id">>, <<"lit", "contacts">>>>]  \* :176 Add contacts to group
  @@ "remove_contacts_from_group" :> [method |-> "DELETE", path |-> <<<<"lit", "contact_groups">>, <<"id", "id">>, <<"lit", "contacts">>>>]  \* :177 Remove contacts from group
  @@ "list_teammate_groups" :> [method |-> "GET", path |-> <<<<"lit", "teammates">>, <<"id", "id">>, <<"lit", "contact_groups">>>>]  \* :178 List teammate groups
  @@ "create_teammate_group" :> [method |-> "POST", path |-> <<<<"lit", "teammates">>, <<"id", "id">>, <<"lit", "contact_groups">>>>]  \* :179 Create teammate group
  @@ "list_team_groups" :> [method |-> "GET", path |-> <<<<"lit", "teams">>, <<"id", "id">>, <<"lit", "contact_groups">>>>]  \* :180 List team groups
  @@ "create_team_group" :> [method |-> "POST", path |-> <<<<"lit", "teams">>, <<"id", "id">>, <<"lit", "contact_groups">>>>]  \* :181 Create team group
  @@ "list_contact_lists" :> [method |-> "GET", path |-> <<<<"lit", "contact_lists">>>>]  \* :191 List contact lists
  @@ "create_contact_list" :> [method |-> "POST", path |-> <<<<"lit", "contact_lists">>>>]  \* :192 Create contact list
  @@ "delete_contact_list" :> [method |-> "DELETE", path |-> <<<<"lit", "contact_lists">>, <<"id", "id">>>>]  \* :193 Delete contact list
  @@ "list_contact_list_contacts" :> [method |-> "GET", path |-> <<<<"lit", "contact_lists">>, <<"id", "id">>, <<"lit", "contacts">>>>]  \* :194 List contacts in list
  @@ "add_contacts_to_list" :> [method |-> "POST", path |-> <<<<"lit", "contact_lists">>, <<"id", "id">>, <<"lit", "contacts">>>>]  \* :195 Add contacts to list
  @@ "remove_contacts_from_list" :> [method |-> "DELETE", path |-> <<<<"lit", "contact_lists">>, <<"id", "id">>, <<"lit", "contacts">>>>]  \* :196 Remove contacts from list
  @@ "list_teammate_contact_lists" :> [method |-> "GET", path |-> <<<<"lit", "teammates">>, <<"id", "id">>, <<"lit", "contact_lists">>>>]  \* :197 List teammate lists
  @@ "create_teammate_contact_list" :> [method |-> "POST", path |-> <<<<"lit", "teammates">>, <<"id", "id">>, <<"lit", "contact_lists">>>>]  \* :198 Create teammate list
  @@ "list_team_contact_lists" :> [method |-> "GET", path |-> <<<<"lit", "teams">>, <<"id", "id">>, <<"lit", "contact_lists">>>>]  \* :199 List team lists
  @@ "create_team_contact_list" :> [method |-> "POST", path |-> <<<<"lit", "teams">>, <<"id", "id">>, <<"lit", "contact_lists">>>>]  \* :200 Create team list
  @@ "create_discussion_conversation" :> [method |-> "POST", path |-> <<<<"lit", "conversations">>>>]  \* :215 Create discussion conversation
  @@ "update_conversation_assignee" :> [method |-> "PUT", path |-> <<<<"lit", "conversations">>, <<"id", "id">>, <<"lit", "assignee">>>>]  \* :219 Update assignee
  @@ "list_conversation_events" :> [method |-> "GET", path |-> <<<<"lit", "conversations">>, <<"id", "id">>, <<"lit", "events">>>>]  \* :225 List events
  @@ "list_conversation_followers" :> [method |-> "GET", path |-> <<<<"lit", "conversations">>, <<"id", "id">>, <<"lit", "followers">>>>]  \* :226 List followers
  @@ "add_conversation_followers" :> [method |-> "POST", path |-> <<<<"lit", "conversations">>, <<"id", "id">>, <<"lit", "followers">>>>]  \* :227 Add followers
  @@ "delete_conversation_followers" :> [method |-> "DELETE", path |-> <<<<"lit", "conversations">>, <<"id", "id">>, <<"lit", "followers">>>>]  \* :228 Delete followers
  @@ "list_conversation_inboxes" :> [method |-> "GET", path |-> <<<<"lit", "conversations">>, <<"id", "id">>, <<"lit", "inboxes">>>>]  \* :234 List inboxes
  @@ "add_conversation_link" :> [method |-> "POST", path |-> <<<<"lit", "conversations">>, <<"id", "id">>, <<"lit", "links">>>>]  \* :235 Add link
  @@ "remove_conversation_links" :> [method |-> "DELETE", path |-> <<<<"lit", "conversations">>, <<"id", "id">>, <<"lit", "links">>>>]  \* :236 Remove links
  @@ "update_conversation_reminders" :> [method |-> "PATCH", path |-> <<<<"lit", "conversations">>, <<"id", "id">>, <<"lit", "reminders">>>>]  \* :244 Update reminders
  @@ "add_conversation_tag" :> [method |-> "POST", path |-> <<<<"lit", "conversations">>, <<"id", "id">>, <<"lit", "tags">>>>]  \* :245 Add tag
  @@ "remove_conversation_tag" :> [method |-> "DELETE", path |-> <<<<"lit", "conversations">>, <<"id", "id">>, <<"lit", "tags">>>>]  \* :246 Remove tag
  @@ "list_account_custom_fields" :> [method |-> "GET", path |-> <<<<"lit", "accounts">>, <<"lit", "custom_fields">>>>]  \* :271 List account custom fields
  @@ "list_contact_custom_fields" :> [method |-> "GET", path |-> <<<<"lit", "contacts">>, <<"lit", "custom_fields">>>>]  \* :272 List contact custom fields
  @@ "list_conversation_custom_fields" :> [method |-> "GET", path |-> <<<<"lit", "conversations">>, <<"lit", "custom_fields">>>>]  \* :273 List conversation custom fields
  @@ "list_custom_fields" :> [method |-> "GET", path |-> <<<<"lit", "custom_fields">>>>]  \* :274 List all custom fields
  @@ "list_inbox_custom_fields" :> [method |-> "GET", path |-> <<<<"lit", "inboxes">>, <<"lit", "custom_fields">>>>]  \* :275 List inbox custom fields
  @@ "list_link_custom_fields" :> [method |-> "GET", path |-> <<<<"lit", "links">>, <<"lit", "custom_fields">>>>]  \* :276 List link custom fields
  @@ "list_teammate_custom_fields" :> [method |-> "GET", path |-> <<<<"lit", "teammates">>, <<"lit", "custom_fields">>>>]  \* :277 List teammate custom fields
  @@ "create_draft" :> [method |-> "POST", path |-> <<<<"lit", "drafts">>>>]  \* :291 Create draft
  @@ "list_conversation_drafts" :> [method |-> "GET", path |-> <<<<"lit", "conversations">>, <<"id", "id">>, <<"lit", "drafts">>>>]  \* :292 List conversation drafts
  @@ "create_draft_reply" :> [method |-> "POST", path |-> <<<<"lit", "channels">>, <<"id", "id">>, <<"lit", "drafts">>>>]  \* :293 Create draft reply
  @@ "delete_draft" :> [method |-> "DELETE", path |-> <<<<"lit", "drafts">>, <<"id", "id">>>>]  \* :294 Delete draft
  @@ "edit_draft" :> [method |-> "PATCH", path |-> <<<<"lit", "drafts">>, <<"id", "id">>>>]  \* :295 Edit draft
  @@ "list_events" :> [method |-> "GET", path |-> <<<<"lit", "events">>>>]  \* :307 List events
  @@ "get_event" :> [method |-> "GET", path |-> <<<<"lit", "events">>, <<"id", "id">>>>]  \* :308 Get event
  @@ "create_inbox" :> [method |-> "POST", path |-> <<<<"lit", "inboxes">>>>]  \* :328 Create inbox
  @@ "list_inbox_channels" :> [method |-> "GET", path |-> <<<<"lit", "inboxes">>, <<"id", "id">>, <<"lit", "channels">>>>]  \* :335 List inbox channels
  @@ "list_inbox_conversations" :> [method |-> "GET", path |-> <<<<"lit", "inboxes">>, <<"id", "id">>, <<"lit", "conversations">>>>]  \* :336 List inbox conversations
  @@ "list_inbox_access" :> [method |-> "GET", path |-> <<<<"lit", "inboxes">>, <<"id", "id">>, <<"lit", "access">>>>]  \* :342 List inbox access
  @@ "add_inbox_access" :> [method |-> "POST", path |-> <<<<"lit", "inboxes">>, <<"id", "id">>, <<"lit", "access">>>>]  \* :343 Add inbox access
  @@ "remove_inbox_access" :> [method |-> "DELETE", path |-> <<<<"lit", "inboxes">>, <<"id", "id">>, <<"lit", "access">>>>]  \* :344 Remove inbox access
  @@ "list_team_inboxes" :> [method |-> "GET", path |-> <<<<"lit", "teams">>, <<"id", "id">>, <<"lit", "inboxes">>>>]  \* :350 List team inboxes
  @@ "create_team_inbox" :> [method |-> "POST", path |-> <<<<"lit", "teams">>, <<"id", "id">>, <<"lit", "inboxes">>>>]  \* :351 Create team inbox
  @@ "receive_custom_message" :> [method |-> "POST", path |-> <<<<"lit", "channels">>, <<"id", "id">>, <<"lit", "incoming_messages">>>>]  \* :416 Receive custom messages
  @@ "import_message" :> [method |-> "POST", path |-> <<<<"lit", "channels">>, <<"id", "id">>, <<"lit", "import">>>>]  \* :419 Import message
  @@ "get_message_seen_status" :> [method |-> "GET", path |-> <<<<"lit", "messages">>, <<"id", "id">>, <<"lit", "seen">>>>]  \* :421 Get message seen status
  @@ "mark_message_seen" :> [method |-> "POST", path |-> <<<<"lit", "messages">>, <<"id", "id">>, <<"lit", "seen">>>>]  \* :422 Mark message seen
  @@ "list_message_template_folders" :> [method |-> "GET", path |-> <<<<"lit", "message_template_folders">>>>]  \* :440 List folders
  @@ "create_message_template_folder" :> [method |-> "POST", path |-> <<<<"lit", "message_template_folders">>>>]  \* :441 Create folder
  @@ "get_message_template_folder" :> [method |-> "GET", path |-> <<<<"lit", "message_template_folders">>, <<"id", "id">>>>]  \* :442 Get folder
  @@ "update_message_template_folder" :> [method |-> "PATCH", path |-> <<<<"lit", "message_template_folders">>, <<"id", "id">>>>]  \* :443 Update folder
  @@ "delete_message_template_folder" :> [method |-> "DELETE", path |-> <<<<"lit", "message_template_folders">>, <<"id", "id">>>>]  \* :444 Delete folder
  @@ "list_child_folders" :> [method |-> "GET", path |-> <<<<"lit", "message_template_folders">>, <<"id", "id">>, <<"lit", "children">>>>]  \* :445 Get child folders
  @@ "create_child_folder" :> [method |-> "POST", path |-> <<<<"lit", "message_template_folders">>, <<"id", "id">>, <<"lit", "children">>>>]  \* :446 Create child folder
  @@ "list_teammate_folders" :> [method |-> "GET", path |-> <<<<"lit", "teammates">>, <<"id", "id">>, <<"lit", "message_template_folders">>>>]  \* :447 List teammate folders
  @@ "create_teammate_folder" :> [method |-> "POST", path |-> <<<<"lit", "teammates">>, <<"id", "id">>, <<"lit", "message_template_folders">>>>]  \* :448 Create teammate folder
  @@ "list_team_folders" :> [method |-> "GET", path |-> <<<<"lit", "teams">>, <<"id", "id">>, <<"lit", "message_template_folders">>>>]  \* :449 List team folders
  @@ "list_message_templates" :> [method |-> "GET", path |-> <<<<"lit", "message_templates">>>>]  \* :455 List templates
  @@ "create_message_template" :> [method |-> "POST", path |-> <<<<"lit", "message_templates">>>>]  \* :456 Create template
  @@ "get_message_template" :> [method |-> "GET", path |-> <<<<"lit", "message_templates">>, <<"id", "id">>>>]  \* :457 Get template
  @@ "update_message_template" :> [method |-> "PATCH", path |-> <<<<"lit", "message_templates">>, <<"id", "id">>>>]  \* :458 Update template
  @@ "delete_message_template" :> [method |-> "DELETE", path |-> <<<<"lit", "message_templates">>, <<"id", "id">>>>]  \* :459 Delete template
  @@ "list_child_templates" :> [method |-> "GET", path |-> <<<<"lit", "message_templates">>, <<"id", "id">>, <<"lit", "children">>>>]  \* :460 Get child templates
  @@ "create_child_template" :> [method |-> "POST", path |-> <<<<"lit", "message_templates">>, <<"id", "id">>, <<"lit", "children">>>>]  \* :461 Create child template
  @@ "get_tag" :> [method |-> "GET", path |-> <<<<"lit", "tags">>, <<"id", "id">>>>]  \* :534 Get tag
  @@ "update_tag" :> [method |-> "PATCH", path |-> <<<<"lit", "tags">>, <<"id", "id">>>>]  \* :535 Update tag
  @@ "delete_tag" :> [method |-> "DELETE", path |-> <<<<"lit", "tags">>, <<"id", "id">>>>]  \* :536 Delete tag
  @@ "list_tag_children" :> [method |-> "GET", path |-> <<<<"lit", "tags">>, <<"id", "id">>, <<"lit", "children">>>>]  \* :537 List tag children
  @@ "create_child_tag" :> [method |-> "POST", path |-> <<<<"lit", "tags">>, <<"id", "id">>, <<"lit", "children">>>>]  \* :538 Create child tag
  @@ "list_tagged_conversations" :> [method |-> "GET", path |-> <<<<"lit", "tags">>, <<"id", "id">>, <<"lit", "conversations">>>>]  \* :539 List tagged conversations
  @@ "list_teammate_tags" :> [method |-> "GET", path |-> <<<<"lit", "teammates">>, <<"id", "id">>, <<"lit", "tags">>>>]  \* :540 List teammate tags
  @@ "create_teammate_tag" :> [method |-> "POST", path |-> <<<<"lit", "teammates">>, <<"id", "id">>, <<"lit", "tags">>>>]  \* :541 Create teammate tag
  @@ "list_team_tags" :> [method |-> "GET", path |-> <<<<"lit", "teams">>, <<"id", "id">>, <<"lit", "tags">>>>]  \* :542 List team tags
  @@ "create_team_tag" :> [method |-> "POST", path |-> <<<<"lit", "teams">>, <<"id", "id">>, <<"lit", "tags">>>>]  \* :543 Create team tag
  @@ "update_teammate" :> [method |-> "PATCH", path |-> <<<<"lit", "teammates">>, <<"id", "id">>>>]  \* :562 Update teammate
  @@ "list_teammate_conversations" :> [method |-> "GET", path |-> <<<<"lit", "teammates">>, <<"id", "id">>, <<"lit", "conversations">>>>]  \* :563 List assigned conversations
  @@ "list_teammate_inboxes" :> [method |-> "GET", path |-> <<<<"lit", "teammates">>, <<"id", "id">>, <<"lit", "inboxes">>>>]  \* :564 List teammate inboxes
----------------------------------------------------------------------------
(* Catalog lookups *)

Names == {Catalog[i].name : i \in DOMAIN Catalog}

\* Descriptor with the optional limit not declared.
Descriptor_NoLimit(name) ==
  LET d == CHOOSE e \in {Catalog[i] : i \in DOMAIN Catalog} : e.name = name
  IN  [d EXCEPT !.properties = @ \ {"limit"}]

Descriptor(name) == CHOOSE d \in {Catalog[i] : i \in DOMAIN Catalog} : d.name = name

\* Cases with the case of list_tags left out of the switch.
Cases_Missing == DOMAIN Dispatch \ {"list_tags"}

\* The labels of the switch.
Cases == DOMAIN Dispatch

AdapterOf(name) == Adapters[Dispatch[name].adapter]

----------------------------------------------------------------------------
(* Inputs *)

\* A name with no descriptor, and the name of an adapter method (the switch
\* compares case labels, not method names).
UnknownNames == {"does_not_exist", "listConversations"}

RequestNames == Names \cup UnknownNames

\* A field no descriptor declares.
ExtraField == "extra_field"

EmptyObject == [k \in {} |-> ""]

NoArguments == [present |-> FALSE, fields |-> EmptyObject]

\* The free-form fields whose value is varied: an identifier substituted
\* into a path, and the two fields search_conversations renames or forwards.
VariedFields ==
  {<<"get_contact", "contact_id">>, <<"search_conversations", "query">>,
   <<"search_conversations", "limit">>}

FieldValue(name, f, v) ==
  IF <<name, f>> \in DOMAIN AllowedValues
    THEN IF v <= Len(AllowedValues[<<name, f>>])
           THEN AllowedValues[<<name, f>>][v]
           ELSE "other"
    ELSE IF <<name, f>> \in VariedFields
      THEN f \o "_" \o ToString(v)
    ELSE f \o "_1"

ArgDomains(name) ==
  LET d == Descriptor(name)
  IN  {D \in SUBSET (d.properties \cup {ExtraField}) :
         Cardinality((D \ d.required) \cup (d.required \ D)) <= MaxDeviation}

ArgsFor(name) ==
  IF name \in Names
    THEN {NoArguments} \cup
         {[present |-> TRUE, fields |-> [f \in D |-> FieldValue(name, f, v)]] :
            D \in ArgDomains(name), v \in 1..MaxVariant}
    ELSE {NoArguments,
          [present |-> TRUE, fields |-> [f \in {ExtraField} |-> FieldValue(name, f, 1)]]}

\* An input that has exactly the required fields of the descriptor, each
\* enumerated one holding a declared value.
MinimalValid(name, args) ==
  /\ name \in Names
  /\ args.present
  /\ DOMAIN args.fields = Descriptor(name).required
  /\ \A f \in DOMAIN args.fields :
       <<name, f>> \in DOMAIN AllowedValues =>
         \E i \in DOMAIN AllowedValues[<<name, f>>] :
            AllowedValues[<<name, f>>][i] = args.fields[f]

\* The members of an object-valued input field (the template of
\* sync_application_message_template is passed as the whole request body).
Members(v) == [k \in {"name", "body"} |-> v \o "." \o k]

----------------------------------------------------------------------------
(* The adapter methods *)

\* The variables an adapter method has in scope: the members of params that
\* its destructuring binds (every member, read through the rest, when it
\* takes params whole), or its positional parameters bound to the fields
\* the switch reads off typedArgs.  A variable bound to undefined is left out.
Env(name, args) ==
  LET d == Dispatch[name]
      a == Adapters[d.adapter]
  IN  IF d.whole
        THEN args.fields
        ELSE LET bound == {i \in DOMAIN d.reads : d.reads[i] \in DOMAIN args.fields}
             IN  [x \in {a.formals[i] : i \in bound} |->
                    args.fields[d.reads[CHOOSE i \in bound : a.formals[i] = x]]]

\* Interpolate with the `$` of `${x}` left out: the name, not the value.
Interpolate_Name(env, x) == x

\* `${x}` in a template literal.
Interpolate(env, x) == IF x \in DOMAIN env THEN env[x] ELSE "undefined"

\* Endpoint with the test turned round: messages for the type reply,
\* comments for everything else.
Endpoint_CommentsElse(env) ==
  IF "type" \in DOMAIN env /\ env["type"] = "reply" THEN "messages" ELSE "comments"

\* Endpoint without the conditional: every reply goes to messages.
Endpoint_Messages(env) == "messages"

\* const endpoint = type === 'comment' ? 'comments' : 'messages';
Endpoint(env) ==
  IF "type" \in DOMAIN env /\ env["type"] = "comment" THEN "comments" ELSE "messages"

Segment(seg, env) ==
  CASE seg[1] = "lit"      -> seg[2]
    [] seg[1] = "var"      -> Interpolate(env, seg[2])
    [] seg[1] = "endpoint" -> Endpoint(env)

PathOf(a, env) == [i \in DOMAIN a.path |-> Segment(a.path[i], env)]

\* Rest with the named members left in: params passed on whole.
Rest_Whole(a, env) == env

\* const { a, b, ...rest } = params: the rest.
Rest(a, env) == [k \in DOMAIN env \ {a.consumed[i] : i \in DOMAIN a.consumed} |-> env[k]]

\* Pick with every member in shorthand: keyed by the variable's own name.
Pick_Shorthand(a, env) ==
  LET idx == {i \in DOMAIN a.pick : a.pick[i][2] \in DOMAIN env}
  IN  [k \in {a.pick[i][2] : i \in idx} |-> env[k]]

\* Pick with the object literal left empty.
Pick_Nothing(a, env) == EmptyObject

\* An object literal { k1: x1, k2: x2 } of variables in scope.
Pick(a, env) ==
  LET idx == {i \in DOMAIN a.pick : a.pick[i][2] \in DOMAIN env}
  IN  [k \in {a.pick[i][1] : i \in idx} |->
         env[a.pick[CHOOSE i \in idx : a.pick[i][1] = k][2]]]

\* Payload with the picked members left out of an object literal that also
\* spreads the rest: { ...data } for { version, ...data }.
Payload_RestOnly(a, env, args) ==
  CASE a.payload = "none"      -> [defined |-> FALSE, fields |-> EmptyObject]
    [] a.payload = "whole"     -> [defined |-> args.present, fields |-> args.fields]
    [] a.payload = "rest"      -> [defined |-> TRUE, fields |-> Rest(a, env)]
    [] a.payload = "pick"      -> [defined |-> TRUE, fields |-> Pick(a, env)]
    [] a.payload = "pick+rest" -> [defined |-> TRUE, fields |-> Rest(a, env)]
    [] a.payload = "value"     ->
         IF a.value \in DOMAIN env
           THEN [defined |-> TRUE, fields |-> Members(env[a.value])]
           ELSE [defined |-> FALSE, fields |-> EmptyObject]

\* The payload handed to axios: defined is FALSE when the argument is absent
\* or undefined.
Payload(a, env, args) ==
  CASE a.payload = "none"      -> [defined |-> FALSE, fields |-> EmptyObject]
    [] a.payload = "whole"     -> [defined |-> args.present, fields |-> args.fields]
    [] a.payload = "rest"      -> [defined |-> TRUE, fields |-> Rest(a, env)]
    [] a.payload = "pick"      -> [defined |-> TRUE, fields |-> Pick(a, env)]
    [] a.payload = "pick+rest" -> [defined |-> TRUE, fields |-> Pick(a, env) @@ Rest(a, env)]
    [] a.payload = "value"     ->
         IF a.value \in DOMAIN env
           THEN [defined |-> TRUE, fields |-> Members(env[a.value])]
           ELSE [defined |-> FALSE, fields |-> EmptyObject]

NoRequest ==
  [method |-> "", path |-> <<>>, query |-> EmptyObject, body |-> EmptyObject, hasBody |-> FALSE]

\* AdapterRequest with the payload of a delete passed under the params
\* member of the config object: axios sends it as the query string.
AdapterRequest_DeleteParams(name, args) ==
  LET a == AdapterOf(name)
      env == Env(name, args)
      p == Payload(a, env, args)
  IN  [method  |-> a.method,
       path    |-> PathOf(a, env),
       query   |-> IF a.place \in {"params", "config.data"} /\ p.defined
                     THEN p.fields ELSE EmptyObject,
       body    |-> IF a.place = "data" /\ p.defined THEN p.fields ELSE EmptyObject,
       hasBody |-> a.place = "data" /\ p.defined]

\* AdapterRequest with the payload of a delete passed as the config object
\* itself, not under its data member: axios sends no body.
AdapterRequest_NoDeleteBody(name, args) ==
  LET a == AdapterOf(name)
      env == Env(name, args)
      p == Payload(a, env, args)
  IN  [method  |-> a.method,
       path    |-> PathOf(a, env),
       query   |-> IF a.place = "params" /\ p.defined THEN p.fields ELSE EmptyObject,
       body    |-> IF a.place = "data" /\ p.defined THEN p.fields ELSE EmptyObject,
       hasBody |-> a.place = "data" /\ p.defined]

\* The request an adapter method passes to this.axiosInstance.
AdapterRequest(name, args) ==
  LET a == AdapterOf(name)
      env == Env(name, args)
      p == Payload(a, env, args)
  IN  [method  |-> a.method,
       path    |-> PathOf(a, env),
       query   |-> IF a.place = "params" /\ p.defined THEN p.fields ELSE EmptyObject,
       body    |-> IF a.place \in {"data", "config.data"} /\ p.defined
                     THEN p.fields ELSE EmptyObject,
       hasBody |-> a.place \in {"data", "config.data"} /\ p.defined]

\* LocalFault with the input checked against the descriptor before the
\* switch: a missing required field is rejected.
LocalFault_Validating(name, args) ==
  LET d == Dispatch[name]
      a == Adapters[d.adapter]
  IN  IF args.present
        THEN IF Descriptor(name).required \subseteq DOMAIN args.fields
               THEN ""
               ELSE "Missing required field"
      ELSE IF ~d.whole /\ Len(d.reads) > 0
        THEN "Cannot read properties of undefined (reading '" \o d.reads[1] \o "')"
      ELSE IF d.whole /\ a.destructures
        THEN "Cannot destructure property '" \o a.consumed[1]
               \o "' of 'params' as it is undefined."
      ELSE ""

\* The TypeError raised before any request is made when the call has no
\* arguments object: the switch reads typedArgs.x, or the adapter
\* destructures params.  "" when nothing is raised.
LocalFault(name, args) ==
  LET d == Dispatch[name]
      a == Adapters[d.adapter]
  IN  IF args.present THEN ""
      ELSE IF ~d.whole /\ Len(d.reads) > 0
        THEN "Cannot read properties of undefined (reading '" \o d.reads[1] \o "')"
      ELSE IF d.whole /\ a.destructures
        THEN "Cannot destructure property '" \o a.consumed[1]
               \o "' of 'params' as it is undefined."
      ELSE ""

----------------------------------------------------------------------------
(* Outcomes of an outbound request *)

\* What the remote API can answer with a non-2xx status.
FailureStatuses == {404, 409, 500}

\* The error body of such an answer: without a message member, or with one
\* (which may be the empty string).
RemoteBodies ==
  {[hasMessage |-> FALSE, message |-> ""]} \cup
  {[hasMessage |-> TRUE, message |-> m] : m \in {"", "Request rejected"}}

\* The decoded body of a 2xx answer: the empty string of a body-less answer,
\* or an object.
NoData == [kind |-> "none", key |-> "", value |-> ""]

RemoteData ==
  {[kind |-> "string", key |-> "", value |-> ""],
   [kind |-> "object", key |-> "id", value |-> "res_1"]}

\* The request could not complete: no response at all.
TransportTexts == {"getaddrinfo ENOTFOUND api2.frontapp.com", "socket hang up"}

NoError ==
  [raised |-> FALSE, hasResponse |-> FALSE, status |-> 0, hasMessage |-> FALSE,
   remoteMessage |-> "", message |-> ""]

\* The error axios rejects with on a non-2xx status: error.response holds the
\* status and the decoded body, error.message the generic text.
StatusError(status, body) ==
  [raised |-> TRUE, hasResponse |-> TRUE, status |-> status,
   hasMessage |-> body.hasMessage, remoteMessage |-> body.message,
   message |-> "Request failed with status code " \o ToString(status)]

\* The error axios rejects with when there is no response.
TransportError(text) ==
  [raised |-> TRUE, hasResponse |-> FALSE, status |-> 0, hasMessage |-> FALSE,
   remoteMessage |-> "", message |-> text]

\* An Error or TypeError raised by the handler's own code.
LocalError(text) ==
  [raised |-> TRUE, hasResponse |-> FALSE, status |-> 0, hasMessage |-> FALSE,
   remoteMessage |-> "", message |-> text]

----------------------------------------------------------------------------
(* The tool call handler's result wrapping *)

\* JSON.stringify(result, null, 2)
JsonStringify(d) ==
  IF d.kind = "object"
    THEN "{\n  \"" \o d.key \o "\": \"" \o d.value \o "\"\n}"
    ELSE "\"" \o d.value \o "\""

\* ErrorMessage without the remote message: error.message alone.
ErrorMessage_Generic(error) == error.message

\* error.response?.data?.message || error.message
ErrorMessage(error) ==
  IF error.hasResponse /\ error.hasMessage /\ error.remoteMessage # ""
    THEN error.remoteMessage
    ELSE error.message

\* CatchResponse without the isError member.
CatchResponse_Unflagged(error) ==
  [content |-> <<[type |-> "text", text |-> "Error: " \o ErrorMessage(error)]>>]

\* The object returned by the catch clause.
CatchResponse(error) ==
  [content |-> <<[type |-> "text", text |-> "Error: " \o ErrorMessage(error)]>>,
   isError |-> TRUE]

\* SuccessResponse that unwraps the body: the value of its member, not the
\* body itself.
SuccessResponse_Unwrapped(result) ==
  [content |-> <<[type |-> "text",
                  text |-> JsonStringify([kind |-> "string", key |-> "", value |-> result.value])]>>]

\* SuccessResponse with the error flag set.
SuccessResponse_Flagged(result) ==
  [content |-> <<[type |-> "text", text |-> JsonStringify(result)]>>,
   isError |-> TRUE]

\* The object returned after the switch.
SuccessResponse(result) ==
  [content |-> <<[type |-> "text", text |-> JsonStringify(result)]>>]

\* Guarded with the try block around the awaited request and the wrapping
\* only: the reads off typedArgs and the destructuring lie outside it.
Guarded_AwaitOnly(stage) == stage \in {"switch", "await", "wrap"}

\* Guarded with the try block opened after the switch's default case.
Guarded_AfterDefault(stage) == stage \in {"adapter", "await", "wrap"}

\* The statements of the tool call handler that lie inside its try block:
\* the switch with its default case, the adapter call, the awaited request
\* and the wrapping of the result.
Guarded(stage) == stage \in {"switch", "adapter", "await", "wrap"}

----------------------------------------------------------------------------
(* The resource handlers *)

\* The uris returned by the ListResourcesRequestSchema handler, in order.
ResourceList ==
  <<"frontapp://conversations/recent", "frontapp://teammates",
    "frontapp://inboxes", "frontapp://tags">>

ListedUris == {ResourceList[i] : i \in DOMAIN ResourceList}

UnknownUris == {"frontapp://contacts"}

\* The object the ListResourcesRequestSchema handler returns (the uris of
\* its entries).
ResourcesResult == [resources |-> ResourceList]

\* ResourceRequest with the recent conversations read without its params.
ResourceRequest_NoLimit(uri) ==
  CASE uri = "frontapp://conversations/recent" ->
         [method |-> "GET", path |-> <<"conversations">>,
          query |-> EmptyObject, body |-> EmptyObject, hasBody |-> FALSE]
    [] uri = "frontapp://teammates" ->
         [method |-> "GET", path |-> <<"teammates">>,
          query |-> EmptyObject, body |-> EmptyObject, hasBody |-> FALSE]
    [] uri = "frontapp://inboxes" ->
         [method |-> "GET", path |-> <<"inboxes">>,
          query |-> EmptyObject, body |-> EmptyObject, hasBody |-> FALSE]
    [] uri = "frontapp://tags" ->
         [method |-> "GET", path |-> <<"tags">>,
          query |-> EmptyObject, body |-> EmptyObject, hasBody |-> FALSE]
    [] OTHER -> NoRequest

\* The request each branch of the ReadResourceRequestSchema handler makes;
\* NoRequest when no branch matches the uri.
ResourceRequest(uri) ==
  CASE uri = "frontapp://conversations/recent" ->
         [method |-> "GET", path |-> <<"conversations">>,
          query |-> [k \in {"limit"} |-> "20"], body |-> EmptyObject, hasBody |-> FALSE]
    [] uri = "frontapp://teammates" ->
         [method |-> "GET", path |-> <<"teammates">>,
          query |-> EmptyObject, body |-> EmptyObject, hasBody |-> FALSE]
    [] uri = "frontapp://inboxes" ->
         [method |-> "GET", path |-> <<"inboxes">>,
          query |-> EmptyObject, body |-> EmptyObject, hasBody |-> FALSE]
    [] uri = "frontapp://tags" ->
         [method |-> "GET", path |-> <<"tags">>,
          query |-> EmptyObject, body |-> EmptyObject, hasBody |-> FALSE]
    [] OTHER -> NoRequest

ResourceResponse(uri, data) ==
  [contents |-> <<[uri |-> uri, mimeType |-> "application/json",
                   text |-> JsonStringify(data)]>>]

----------------------------------------------------------------------------
(* The tool discovery handler *)

\* ToolsResult with the first descriptor entered twice.
ToolsResult_Duplicate == [tools |-> Catalog \o <<Catalog[1]>>]

\* The object the ListToolsRequestSchema handler returns: the array literal
\* of descriptors, built by the handler's arrow function on every call.
ToolsResult == [tools |-> Catalog]

----------------------------------------------------------------------------
(* State *)

Clients == {"c1"}

NoResponse == [content |-> <<>>]

Idle ==
  [pc |-> "idle", handler |-> "", name |-> "", args |-> NoArguments, uri |-> "",
   request |-> NoRequest, sent |-> 0, error |-> NoError, result |-> NoData,
   response |-> NoResponse]

Init ==
  /\ apiToken \in {"", "token"}
  /\ proc = "init"
  /\ exitCode = -1
  /\ calls = [c \in Clients |-> Idle]

\* Main without the check of the token: the server is constructed and
\* connected whatever the environment holds.
Main_Unchecked ==
  /\ proc = "init"
  /\ proc' = "running"
  /\ exitCode' = exitCode
  /\ UNCHANGED <<apiToken, calls>>

\* Main execution: exit(1) without a token, else construct the server and
\* connect it to stdio.
Main ==
  /\ proc = "init"
  /\ IF apiToken = ""
       THEN proc' = "exited" /\ exitCode' = 1
       ELSE proc' = "running" /\ exitCode' = exitCode
  /\ UNCHANGED <<apiToken, calls>>

\* Sigint with the listener's two statements in the other order: the process
\* exits before the server is closed.
Sigint_ExitFirst ==
  /\ proc = "running"
  /\ proc' = "exited"
  /\ exitCode' = 0
  /\ UNCHANGED <<apiToken, calls>>

\* The SIGINT listener up to its await: server.close() is started.
Sigint ==
  /\ proc = "running"
  /\ proc' = "closing"
  /\ UNCHANGED <<apiToken, exitCode, calls>>

\* The SIGINT listener after its await: process.exit(0).
SigintExit ==
  /\ proc = "closing"
  /\ proc' = "exited"
  /\ exitCode' = 0
  /\ UNCHANGED <<apiToken, calls>>

\* The handler's promise settles with an error-flagged response when the
\* failing statement is inside the try block, and rejects otherwise.
Failed(call, stage, error) ==
  IF Guarded(stage)
    THEN [call EXCEPT !.pc = "resolved", !.error = error,
                      !.response = CatchResponse(error)]
    ELSE [call EXCEPT !.pc = "threw", !.error = error]

\* CallTool with a result cache keyed by name and input: a call finding the
\* successful result of an equal call still held answers from it.
CallTool_Cached(c, name, args) ==
  /\ proc = "running"
  /\ calls[c].pc = "idle"
  /\ LET call == [Idle EXCEPT !.handler = "tool", !.name = name, !.args = args]
         kept == {d \in DOMAIN calls \ {c} :
                    /\ calls[d].handler = "tool"
                    /\ calls[d].name = name
                    /\ calls[d].args = args
                    /\ calls[d].pc = "resolved"
                    /\ ~calls[d].error.raised}
     IN  calls' = [calls EXCEPT ![c] =
           IF name \notin Cases
             THEN Failed(call, "switch", LocalError("Unknown tool: " \o name))
           ELSE IF LocalFault(name, args) # ""
             THEN Failed(call, "adapter", LocalError(LocalFault(name, args)))
           ELSE IF kept # {}
             THEN [call EXCEPT !.pc = "resolved",
                               !.result = calls[CHOOSE d \in kept : TRUE].result,
                               !.response = SuccessResponse(calls[CHOOSE d \in kept : TRUE].result)]
           ELSE [call EXCEPT !.pc = "awaiting",
                             !.request = AdapterRequest(name, args),
                             !.sent = call.sent + 1]]
  /\ UNCHANGED <<apiToken, proc, exitCode>>

\* The tool call handler from its entry to its first await, or to its
\* return when it makes no request.
CallTool(c, name, args) ==
  /\ proc = "running"
  /\ calls[c].pc = "idle"
  /\ LET call == [Idle EXCEPT !.handler = "tool", !.name = name, !.args = args]
     IN  calls' = [calls EXCEPT ![c] =
           IF name \notin Cases
             THEN Failed(call, "switch", LocalError("Unknown tool: " \o name))
           ELSE IF LocalFault(name, args) # ""
             THEN Failed(call, "adapter", LocalError(LocalFault(name, args)))
           ELSE [call EXCEPT !.pc = "awaiting",
                             !.request = AdapterRequest(name, args),
                             !.sent = call.sent + 1]]
  /\ UNCHANGED <<apiToken, proc, exitCode>>

\* The resource read handler from its entry to its first await, or to its
\* throw when no branch matches.
ReadResource(c, uri) ==
  /\ proc = "running"
  /\ calls[c].pc = "idle"
  /\ LET call == [Idle EXCEPT !.handler = "resource", !.uri = uri]
     IN  calls' = [calls EXCEPT ![c] =
           IF ResourceRequest(uri) = NoRequest
             THEN [call EXCEPT !.pc = "threw",
                               !.error = LocalError("Unknown resource: " \o uri)]
             ELSE [call EXCEPT !.pc = "awaiting",
                               !.request = ResourceRequest(uri),
                               !.sent = call.sent + 1]]
  /\ UNCHANGED <<apiToken, proc, exitCode>>

\* ListTools that hides the operations whose calls are failing: the
\* descriptors of the names held with an error are left out.
ListTools_Filtered(c) ==
  /\ proc = "running"
  /\ calls[c].pc = "idle"
  /\ LET failing == {calls[e].name : e \in {x \in DOMAIN calls : calls[x].error.raised}}
         Shown(d) == d.name \notin failing
     IN  calls' = [calls EXCEPT ![c] =
           [Idle EXCEPT !.handler = "discovery", !.pc = "resolved",
                        !.response = [tools |-> SelectSeq(Catalog, Shown)]]]
  /\ UNCHANGED <<apiToken, proc, exitCode>>

\* The tool discovery handler: it has no await and makes no request.
ListTools(c) ==
  /\ proc = "running"
  /\ calls[c].pc = "idle"
  /\ calls' = [calls EXCEPT ![c] =
       [Idle EXCEPT !.handler = "discovery", !.pc = "resolved",
                    !.response = ToolsResult]]
  /\ UNCHANGED <<apiToken, proc, exitCode>>

\* HttpSuccess with the requests serialised on the shared axios instance: an
\* answer is taken up only when no other request is outstanding.
HttpSuccess_Serial(c, data) ==
  /\ proc \in {"running", "closing"}
  /\ calls[c].pc = "awaiting"
  /\ \A e \in DOMAIN calls \ {c} : calls[e].pc # "awaiting"
  /\ calls' = [calls EXCEPT ![c] =
       IF calls[c].handler = "tool"
         THEN [@ EXCEPT !.pc = "resolved", !.result = data,
                        !.response = SuccessResponse(data)]
         ELSE [@ EXCEPT !.pc = "resolved", !.result = data,
                        !.response = ResourceResponse(calls[c].uri, data)]]
  /\ UNCHANGED <<apiToken, proc, exitCode>>

\* The resource discovery handler: it has no await and makes no request.
ListResources(c) ==
  /\ proc = "running"
  /\ calls[c].pc = "idle"
  /\ calls' = [calls EXCEPT ![c] =
       [Idle EXCEPT !.handler = "resources", !.pc = "resolved",
                    !.response = ResourcesResult]]
  /\ UNCHANGED <<apiToken, proc, exitCode>>

\* The awaited request is answered with a 2xx status.
HttpSuccess(c, data) ==
  /\ proc \in {"running", "closing"}
  /\ calls[c].pc = "awaiting"
  /\ calls' = [calls EXCEPT ![c] =
       IF calls[c].handler = "tool"
         THEN [@ EXCEPT !.pc = "resolved", !.result = data,
                        !.response = SuccessResponse(data)]
         ELSE [@ EXCEPT !.pc = "resolved", !.result = data,
                        !.response = ResourceResponse(calls[c].uri, data)]]
  /\ UNCHANGED <<apiToken, proc, exitCode>>

\* Rejected with the rejection of a resource read left unhandled: the
\* process dies of it with status 1.
Rejected_Fatal(c, error) ==
  /\ proc \in {"running", "closing"}
  /\ calls[c].pc = "awaiting"
  /\ calls' = [calls EXCEPT ![c] =
       IF calls[c].handler = "tool"
         THEN Failed(@, "await", error)
         ELSE [@ EXCEPT !.pc = "threw", !.error = error]]
  /\ proc' = IF calls[c].handler = "tool" THEN proc ELSE "exited"
  /\ exitCode' = IF calls[c].handler = "tool" THEN exitCode ELSE 1
  /\ UNCHANGED apiToken

\* Rejected with one retry: the first rejection re-issues the request.
Rejected_Retry(c, error) ==
  /\ proc \in {"running", "closing"}
  /\ calls[c].pc = "awaiting"
  /\ calls' = [calls EXCEPT ![c] =
       IF calls[c].sent < 2
         THEN [@ EXCEPT !.sent = @ + 1]
       ELSE IF calls[c].handler = "tool"
         THEN Failed(@, "await", error)
         ELSE [@ EXCEPT !.pc = "threw", !.error = error]]
  /\ UNCHANGED <<apiToken, proc, exitCode>>

\* The awaited request rejects with the given error.
Rejected(c, error) ==
  /\ proc \in {"running", "closing"}
  /\ calls[c].pc = "awaiting"
  /\ calls' = [calls EXCEPT ![c] =
       IF calls[c].handler = "tool"
         THEN Failed(@, "await", error)
         ELSE [@ EXCEPT !.pc = "threw", !.error = error]]
  /\ UNCHANGED <<apiToken, proc, exitCode>>

\* The awaited request is answered with a non-2xx status.
HttpFailure(c, status, body) == Rejected(c, StatusError(status, body))

\* The awaited request gets no answer.
TransportFailure(c, text) == Rejected(c, TransportError(text))

\* The settled promise is handed back to the protocol layer and the call
\* is forgotten.
Deliver(c) ==
  /\ calls[c].pc \in {"resolved", "threw"}
  /\ calls' = [calls EXCEPT ![c] = Idle]
  /\ UNCHANGED <<apiToken, proc, exitCode>>

Next ==
  \/ Main
  \/ Sigint
  \/ SigintExit
  \/ \E c \in Clients, name \in RequestNames : \E args \in ArgsFor(name) : CallTool(c, name, args)
  \/ \E c \in Clients, uri \in ListedUris \cup UnknownUris : ReadResource(c, uri)
  \/ \E c \in Clients : ListTools(c)
  \/ \E c \in Clients : ListResources(c)
  \/ \E c \in Clients, data \in RemoteData : HttpSuccess(c, data)
  \/ \E c \in Clients, status \in FailureStatuses, body \in RemoteBodies : HttpFailure(c, status, body)
  \/ \E c \in Clients, text \in TransportTexts : TransportFailure(c, text)
  \/ \E c \in Clients : Deliver(c)

Spec == Init /\ [][Next]_vars

\* The SIGINT listener is an async function: once the promise of
\* server.close() settles, the event loop runs the rest of it.
SpecLive == Spec /\ WF_vars(SigintExit)

\* Several requests in flight at once: the protocol layer starts a handler
\* for every request it reads, without waiting for the handlers already
\* started.  The inputs are restricted to two operations, one unknown name,
\* one listed and one unlisted resource.
ConcClients == {"c1", "c2"}

ConcNames == {"list_conversations", "get_contact", "does_not_exist"}

ConcArgs(name) == {args \in ArgsFor(name) : ~args.present \/ MinimalValid(name, args)}

ConcUris == {"frontapp://conversations/recent", "frontapp://contacts"}

InitConc ==
  /\ apiToken \in {"", "token"}
  /\ proc = "init"
  /\ exitCode = -1
  /\ calls = [c \in ConcClients |-> Idle]

NextConc ==
  \/ Main
  \/ Sigint
  \/ SigintExit
  \/ \E c \in ConcClients, name \in ConcNames : \E args \in ConcArgs(name) : CallTool(c, name, args)
  \/ \E c \in ConcClients, uri \in ConcUris : ReadResource(c, uri)
  \/ \E c \in ConcClients : ListTools(c)
  \/ \E c \in ConcClients : ListResources(c)
  \/ \E c \in ConcClients, data \in RemoteData : HttpSuccess(c, data)
  \/ \E c \in ConcClients, status \in FailureStatuses, body \in RemoteBodies : HttpFailure(c, status, body)
  \/ \E c \in ConcClients, text \in TransportTexts : TransportFailure(c, text)
  \/ \E c \in ConcClients : Deliver(c)

SpecConc == InitConc /\ [][NextConc]_vars

TypeOK ==
  /\ apiToken \in {"", "token"}
  /\ proc \in {"init", "running", "closing", "exited"}
  /\ exitCode \in {-1, 0, 1}
  /\ \A c \in DOMAIN calls : calls[c].pc \in {"idle", "awaiting", "resolved", "threw"}

----------------------------------------------------------------------------
(* Properties *)

\* The tool calls the server holds, and those whose adapter issued a request.
ToolCalls == {c \in DOMAIN calls : calls[c].handler = "tool" /\ calls[c].pc # "idle"}

Requested == {c \in ToolCalls : calls[c].sent > 0}

\* The text of the single content item of a tool response.
TextOf(response) == response.content[1].text

\* An input field whose value was substituted into a segment of the path.
InPath(call, f) ==
  /\ f \in DOMAIN call.args.fields
  /\ \E i \in DOMAIN call.request.path : call.request.path[i] = call.args.fields[f]

\* C1: a tool call whose name is not in the catalog returned by discovery
\* resolves with the error-flagged response that names the unknown tool,
\* and no outbound request is made for it.
C1_UnknownOperation ==
  \A c \in ToolCalls :
    calls[c].name \notin Names =>
      /\ calls[c].pc = "resolved"
      /\ calls[c].response =
           [content |-> <<[type |-> "text",
                           text |-> "Error: Unknown tool: " \o calls[c].name]>>,
            isError |-> TRUE]
      /\ calls[c].sent = 0
      /\ calls[c].request = NoRequest

C1_Witness ==
  \E c \in ToolCalls :
    calls[c].name = "does_not_exist" /\ calls[c].pc = "resolved"

\* The method and path template documented for a call: the row of the
\* operation, and for reply_to_conversation with type "comment" the row of
\* the comments sub-resource (FRONTAPP_API_ENDPOINTS.md:117).
DeclaredFor(name, args) ==
  IF /\ name = "reply_to_conversation"
     /\ "type" \in DOMAIN args.fields
     /\ args.fields["type"] = "comment"
    THEN [method |-> "POST",
          path |-> <<<<"lit", "conversations">>, <<"id", "id">>, <<"lit", "comments">>>>]
    ELSE Declared[name]

\* A path is the template with each named segment replaced by the value of
\* a required input field, a different field for each named segment.
Instantiates(path, template, args, required) ==
  /\ Len(path) = Len(template)
  /\ \A i \in DOMAIN template :
       IF template[i][1] = "lit"
         THEN path[i] = template[i][2]
         ELSE \E f \in required \cap DOMAIN args.fields : path[i] = args.fields[f]
  /\ \A i, j \in DOMAIN template :
       (i # j /\ template[i][1] = "id" /\ template[j][1] = "id") => path[i] # path[j]

\* C2: a tool call of a catalog operation with a minimal valid input (the
\* required fields and no others) makes exactly one outbound request, whose
\* method and path are the documented method and path template of the
\* operation with the path fields substituted.
C2_OneDeclaredRequest ==
  \A c \in ToolCalls :
    MinimalValid(calls[c].name, calls[c].args) =>
      /\ calls[c].sent = 1
      /\ calls[c].request.method = DeclaredFor(calls[c].name, calls[c].args).method
      /\ Instantiates(calls[c].request.path,
                      DeclaredFor(calls[c].name, calls[c].args).path,
                      calls[c].args, Descriptor(calls[c].name).required)

C2_Witness ==
  \E c \in ToolCalls :
    /\ calls[c].name = "update_external_message_status"
    /\ MinimalValid(calls[c].name, calls[c].args)
    /\ calls[c].pc = "resolved"
    /\ ~calls[c].error.raised

\* C3: an input field whose value was substituted into the path of the
\* outbound request is not a key of the request's body nor of its query
\* parameters.
C3_PathFieldNotForwarded ==
  \A c \in Requested :
    \A f \in DOMAIN calls[c].args.fields :
      InPath(calls[c], f) =>
        /\ f \notin DOMAIN calls[c].request.body
        /\ f \notin DOMAIN calls[c].request.query

C3_Witness ==
  \E c \in Requested :
    /\ calls[c].name = "update_conversation"
    /\ InPath(calls[c], "conversation_id")
    /\ "status" \in DOMAIN calls[c].request.body

\* The forwarded payload of a request: its query parameters for GET, its
\* body for the other methods.
Forwarded(request) == IF request.method = "GET" THEN request.query ELSE request.body

\* An input field the path consumes: one substituted into a segment, or the
\* type of reply_to_conversation, which selects the sub-resource segment.
PathConsumes(call, f) ==
  \/ InPath(call, f)
  \/ call.name = "reply_to_conversation" /\ f = "type"

\* C4 as stated: every input field that the path does not consume is a key
\* of the forwarded payload, with the same value.
C4_EveryFieldForwarded ==
  \A c \in Requested :
    \A f \in DOMAIN calls[c].args.fields :
      ~PathConsumes(calls[c], f) =>
        /\ f \in DOMAIN Forwarded(calls[c].request)
        /\ Forwarded(calls[c].request)[f] = calls[c].args.fields[f]

\* C4 (amended): every declared input field that the path does not consume
\* is forwarded with its value unchanged, under its own key, except that
\* search_conversations sends query under the key q and
\* sync_application_message_template sends the members of template as the
\* body itself.
C4_DeclaredFieldForwarded ==
  \A c \in Requested :
    \A f \in DOMAIN calls[c].args.fields \cap Descriptor(calls[c].name).properties :
      ~PathConsumes(calls[c], f) =>
        IF calls[c].name = "search_conversations" /\ f = "query"
          THEN /\ "q" \in DOMAIN calls[c].request.query
               /\ calls[c].request.query["q"] = calls[c].args.fields[f]
               /\ "query" \notin DOMAIN calls[c].request.query
        ELSE IF calls[c].name = "sync_application_message_template" /\ f = "template"
          THEN /\ calls[c].request.body = Members(calls[c].args.fields[f])
               /\ calls[c].request.hasBody
        ELSE /\ f \in DOMAIN Forwarded(calls[c].request)
             /\ Forwarded(calls[c].request)[f] = calls[c].args.fields[f]

C4_Witness ==
  \E c \in Requested :
    /\ calls[c].name = "add_contact_to_account"
    /\ "contact_ids" \in DOMAIN calls[c].args.fields
    /\ ExtraField \in DOMAIN calls[c].args.fields
    /\ DOMAIN calls[c].request.body = {"contact_ids"}

\* The tool calls that the remote API answered with a non-2xx status, those
\* that got no answer, and those that were answered with a 2xx status.
RemoteFailed == {c \in ToolCalls : calls[c].pc = "resolved" /\ calls[c].error.hasResponse}

TransportFailed ==
  {c \in Requested : calls[c].pc = "resolved" /\ calls[c].error.raised
                        /\ ~calls[c].error.hasResponse}

Succeeded == {c \in ToolCalls : calls[c].pc = "resolved" /\ ~calls[c].error.raised}

\* C5: the response to a 409 answer on edit_draft or delete_draft differs
\* from the response to every 404 answer on the same operation, so that a
\* client can tell the version conflict from the not-found failure.
C5_ConflictDistinctFromNotFound ==
  \A c \in RemoteFailed :
    (calls[c].name \in {"edit_draft", "delete_draft"} /\ calls[c].error.status = 409) =>
      \A body \in RemoteBodies :
        calls[c].response # CatchResponse(StatusError(404, body))

\* C6: a tool call never leaves the handler as a thrown exception, whatever
\* its name and arguments and whatever the outcome of its request; a call
\* that failed resolves with an error-flagged response.
C6_NoExceptionEscapes ==
  \A c \in ToolCalls :
    /\ calls[c].pc # "threw"
    /\ (calls[c].pc = "resolved" /\ calls[c].error.raised) =>
         /\ "isError" \in DOMAIN calls[c].response
         /\ calls[c].response.isError = TRUE

C6_Witness ==
  \E c \in ToolCalls :
    /\ calls[c].name = "update_conversation"
    /\ ~calls[c].args.present
    /\ calls[c].pc = "resolved"
    /\ calls[c].error.raised
    /\ calls[c].sent = 0

\* The resource reads the server holds.
ResourceReads == {c \in DOMAIN calls : calls[c].handler = "resource" /\ calls[c].pc # "idle"}

\* C7: a resource read never leaves the read handler as a thrown exception:
\* a read that failed resolves with an error-flagged response.
C7_ReadNeverThrows ==
  \A c \in ResourceReads :
    /\ calls[c].pc # "threw"
    /\ (calls[c].pc = "resolved" /\ calls[c].error.raised) =>
         /\ "isError" \in DOMAIN calls[c].response
         /\ calls[c].response.isError = TRUE

\* C8 as stated: the text of a failed call is "Error: " followed by the
\* remote message when the remote error body has a message member, and by
\* the generic error text otherwise and when there was no response.
C8_RemoteMessageIfPresent ==
  \A c \in RemoteFailed \cup TransportFailed :
    TextOf(calls[c].response) =
      "Error: " \o (IF calls[c].error.hasResponse /\ calls[c].error.hasMessage
                      THEN calls[c].error.remoteMessage
                      ELSE calls[c].error.message)

\* C8 (amended): the text of a failed call is "Error: " followed by the
\* remote message when the remote error body has a non-empty message, and
\* by the generic error text otherwise (no message, or an empty one) and
\* when there was no response.
C8_RemoteMessageIfNonEmpty ==
  \A c \in RemoteFailed \cup TransportFailed :
    TextOf(calls[c].response) =
      "Error: " \o (IF /\ calls[c].error.hasResponse
                        /\ calls[c].error.hasMessage
                        /\ calls[c].error.remoteMessage # ""
                      THEN calls[c].error.remoteMessage
                      ELSE calls[c].error.message)

C8_Witness ==
  \E c \in RemoteFailed :
    /\ calls[c].error.hasMessage
    /\ calls[c].error.remoteMessage = "Request rejected"
    /\ TextOf(calls[c].response) = "Error: Request rejected"

\* Whether a text has the given text inside it.
Contains(text, part) ==
  \E i \in 1..(Len(text) - Len(part) + 1) : SubSeq(text, i, i + Len(part) - 1) = part

\* C9: the response to a non-2xx answer carries the HTTP status code of the
\* answer, as a member of the response or within its text.
C9_FailureCarriesStatus ==
  \A c \in RemoteFailed :
    \/ /\ "status" \in DOMAIN calls[c].response
       /\ calls[c].response.status = calls[c].error.status
    \/ Contains(TextOf(calls[c].response), ToString(calls[c].error.status))

\* C10: every tool response is an object with a content list of one text
\* item; a failure has the isError member set and a text that starts with
\* "Error: ", and a success has no isError member set.
C10_SameEnvelope ==
  \A c \in ToolCalls :
    calls[c].pc = "resolved" =>
      /\ DOMAIN calls[c].response \subseteq {"content", "isError"}
      /\ "content" \in DOMAIN calls[c].response
      /\ Len(calls[c].response.content) = 1
      /\ DOMAIN calls[c].response.content[1] = {"type", "text"}
      /\ calls[c].response.content[1].type = "text"
      /\ IF calls[c].error.raised
           THEN /\ "isError" \in DOMAIN calls[c].response
                /\ calls[c].response.isError = TRUE
                /\ SubSeq(TextOf(calls[c].response), 1, 7) = "Error: "
           ELSE /\ "isError" \notin DOMAIN calls[c].response
                /\ TextOf(calls[c].response) = JsonStringify(calls[c].result)

C10_Witness ==
  \E c \in Succeeded :
    /\ calls[c].name = "get_contact"
    /\ calls[c].result.kind = "object"
    /\ "isError" \notin DOMAIN calls[c].response

\* The calls of a read-only operation that got past the handler's own code:
\* a tool whose adapter makes a GET, or a listed resource.
ReadOnlyCalls ==
  {c \in DOMAIN calls :
     /\ calls[c].pc # "idle"
     /\ \/ /\ calls[c].handler = "tool"
           /\ calls[c].name \in Cases
           /\ AdapterOf(calls[c].name).method = "GET"
           /\ LocalFault(calls[c].name, calls[c].args) = ""
        \/ /\ calls[c].handler = "resource"
           /\ calls[c].uri \in ListedUris}

\* Two calls of the same operation with the same input.
SameCall(c, d) ==
  /\ calls[c].handler = calls[d].handler
  /\ calls[c].name = calls[d].name
  /\ calls[c].args = calls[d].args
  /\ calls[c].uri = calls[d].uri

\* C11: every call of a read-only operation makes its own outbound request,
\* whatever other calls (equal ones included) are held or have resolved; of
\* two equal calls each has made one GET, and each that succeeded answers
\* with the wrapping of the body its own request received, never with what
\* the other received.
C11_NoRetainedResult ==
  /\ \A c \in ReadOnlyCalls :
       /\ calls[c].sent = 1
       /\ calls[c].request.method = "GET"
  /\ \A c \in ReadOnlyCalls, d \in ReadOnlyCalls :
       (c # d /\ SameCall(c, d)
          /\ calls[c].pc = "resolved" /\ ~calls[c].error.raised
          /\ calls[d].pc = "resolved" /\ ~calls[d].error.raised
          /\ calls[c].result # calls[d].result)
       => calls[c].response # calls[d].response

\* Two equal calls of list_conversations have both succeeded, with different
\* bodies and so with different responses.
C11_Witness ==
  /\ calls["c1"].handler = "tool" /\ calls["c1"].name = "list_conversations"
  /\ calls["c1"].args.present
  /\ SameCall("c1", "c2")
  /\ calls["c1"].pc = "resolved" /\ calls["c2"].pc = "resolved"
  /\ ~calls["c1"].error.raised /\ ~calls["c2"].error.raised
  /\ calls["c1"].sent = 1 /\ calls["c2"].sent = 1
  /\ calls["c1"].result # calls["c2"].result
  /\ TextOf(calls["c1"].response) # TextOf(calls["c2"].response)

\* The tool calls that failed in the handler's own code, before any request.
LocallyFailed ==
  {c \in ToolCalls : /\ calls[c].pc = "resolved"
                     /\ calls[c].error.raised
                     /\ c \notin RemoteFailed \cup TransportFailed}

\* C12 as stated: every failed tool call attempted exactly one outbound
\* request.
C12_FailedCallOneRequest ==
  \A c \in ToolCalls :
     (calls[c].pc = "resolved" /\ calls[c].error.raised) => calls[c].sent = 1

\* C12 amended: no tool call attempts more than one outbound request; a call
\* that failed on a non-2xx answer or on a transport failure attempted
\* exactly one (no retry), a call that succeeded attempted exactly one (no
\* follow-up), and a call that failed in the handler's own code (unknown
\* operation, missing arguments object) attempted none.
C12_NoRetryNoFollowUp ==
  /\ \A c \in ToolCalls : calls[c].sent <= 1
  /\ \A c \in RemoteFailed \cup TransportFailed \cup Succeeded : calls[c].sent = 1
  /\ \A c \in LocallyFailed : calls[c].sent = 0

\* A call answered with status 500 has failed after its one request.
C12_Witness ==
  \E c \in RemoteFailed :
     /\ calls[c].error.status = 500
     /\ calls[c].sent = 1
     /\ calls[c].response = CatchResponse(calls[c].error)

\* The identifier-list argument of each removal operation (for
\* delete_contact_handle, the handle and its source).
RemovedBy ==
     "remove_conversation_tag"       :> {"tag_ids"}
  @@ "delete_conversation_followers" :> {"teammate_ids"}
  @@ "remove_conversation_links"     :> {"link_ids"}
  @@ "delete_contact_handle"         :> {"handle", "source"}

\* C13: the request of a removal operation is a DELETE with a body, and the
\* identifier-list argument of the input is a member of that body with the
\* input's value and is not a query parameter.
C13_RemovalListInBody ==
  \A c \in Requested :
     calls[c].name \in DOMAIN RemovedBy =>
       /\ calls[c].request.method = "DELETE"
       /\ calls[c].request.hasBody
       /\ \A f \in RemovedBy[calls[c].name] :
            f \in DOMAIN calls[c].args.fields =>
              /\ f \in DOMAIN calls[c].request.body
              /\ calls[c].request.body[f] = calls[c].args.fields[f]
              /\ f \notin DOMAIN calls[c].request.query

\* remove_conversation_tag has been requested with its two required fields.
C13_Witness ==
  \E c \in Requested :
     /\ calls[c].name = "remove_conversation_tag"
     /\ MinimalValid(calls[c].name, calls[c].args)
     /\ calls[c].request.method = "DELETE"
     /\ DOMAIN calls[c].request.body = {"tag_ids"}
     /\ calls[c].request.query = EmptyObject

\* The requested calls of reply_to_conversation whose input has
\* conversation_id and the given type.
Replies(type) ==
  {c \in Requested :
     /\ calls[c].name = "reply_to_conversation"
     /\ {"conversation_id", "type"} \subseteq DOMAIN calls[c].args.fields
     /\ calls[c].args.fields["type"] = type}

\* The body of a reply: the input without conversation_id and type.
ReplyBodyOK(c) ==
  /\ calls[c].request.method = "POST"
  /\ calls[c].request.hasBody
  /\ calls[c].request.query = EmptyObject
  /\ DOMAIN calls[c].request.body =
       DOMAIN calls[c].args.fields \ {"conversation_id", "type"}
  /\ \A f \in DOMAIN calls[c].request.body :
       calls[c].request.body[f] = calls[c].args.fields[f]

\* C14: reply_to_conversation posts to /conversations/{conversation_id}/comments
\* when type is "comment" and to /conversations/{conversation_id}/messages
\* when type is "reply"; the body has every input field except type and
\* conversation_id, and neither of these two.
C14_ReplyRouting ==
  /\ \A c \in Replies("comment") :
       /\ calls[c].request.path =
            <<"conversations", calls[c].args.fields["conversation_id"], "comments">>
       /\ ReplyBodyOK(c)
  /\ \A c \in Replies("reply") :
       /\ calls[c].request.path =
            <<"conversations", calls[c].args.fields["conversation_id"], "messages">>
       /\ ReplyBodyOK(c)

\* A comment with a further input field has been posted.
C14_Witness ==
  \E c \in Replies("comment") :
     /\ calls[c].request.path[3] = "comments"
     /\ DOMAIN calls[c].request.body # {}
     /\ "type" \notin DOMAIN calls[c].request.body

\* The requested calls of get_contact whose input is {contact_id: c}.
GetContactCalls ==
  {c \in Requested : /\ calls[c].name = "get_contact"
                     /\ DOMAIN calls[c].args.fields = {"contact_id"}}

\* C15: get_contact with input {contact_id: c} makes the one request
\* GET /contacts/c with no query parameter and no body, and when it succeeds
\* its response is not error-flagged and its text is the serialisation of
\* the body the remote returned and of no other body.
C15_GetContact ==
  \A c \in GetContactCalls :
     /\ calls[c].sent = 1
     /\ calls[c].request.method = "GET"
     /\ calls[c].request.path = <<"contacts", calls[c].args.fields["contact_id"]>>
     /\ calls[c].request.query = EmptyObject
     /\ ~calls[c].request.hasBody
     /\ c \in Succeeded =>
          /\ DOMAIN calls[c].response = {"content"}
          /\ Len(calls[c].response.content) = 1
          /\ \A d \in RemoteData :
               TextOf(calls[c].response) = JsonStringify(d) <=> d = calls[c].result

\* get_contact of the second contact identifier has succeeded with an object.
C15_Witness ==
  \E c \in GetContactCalls \cap Succeeded :
     /\ calls[c].args.fields["contact_id"] = "contact_id_2"
     /\ calls[c].request.path = <<"contacts", "contact_id_2">>
     /\ calls[c].result.kind = "object"

\* The requested calls of search_conversations whose input is
\* {query: q, limit: n}.
SearchCalls ==
  {c \in Requested : /\ calls[c].name = "search_conversations"
                     /\ DOMAIN calls[c].args.fields = {"query", "limit"}}

\* C16: search_conversations with input {query: q, limit: n} makes the
\* request GET /conversations/search whose query parameters are exactly q,
\* holding the input's query, and limit, holding the input's limit; there is
\* no parameter named query and no body.
C16_SearchParameters ==
  \A c \in SearchCalls :
     /\ calls[c].request.method = "GET"
     /\ calls[c].request.path = <<"conversations", "search">>
     /\ DOMAIN calls[c].request.query = {"q", "limit"}
     /\ calls[c].request.query["q"] = calls[c].args.fields["query"]
     /\ calls[c].request.query["limit"] = calls[c].args.fields["limit"]
     /\ ~calls[c].request.hasBody

\* A search for the third query value has been requested.
C16_Witness ==
  \E c \in SearchCalls :
     /\ calls[c].args.fields["query"] = "query_3"
     /\ calls[c].request.query["q"] = "query_3"
     /\ calls[c].request.query["limit"] = "limit_3"

\* The requested calls of the given draft operation whose input has
\* draft_id and version.
DraftCalls(name) ==
  {c \in Requested : /\ calls[c].name = name
                     /\ {"draft_id", "version"} \subseteq DOMAIN calls[c].args.fields}

\* The members of the body hold the values the input has for them.
BodyFromInput(c) ==
  \A f \in DOMAIN calls[c].request.body :
     /\ f \in DOMAIN calls[c].args.fields
     /\ calls[c].request.body[f] = calls[c].args.fields[f]

\* C17: edit_draft makes PATCH /drafts/{draft_id} whose body is the input
\* without draft_id, version included; delete_draft makes
\* DELETE /drafts/{draft_id} whose body is the input's version alone; no
\* request of either has draft_id in its body or any query parameter.
C17_VersionInBody ==
  /\ \A c \in DraftCalls("edit_draft") :
       /\ calls[c].request.method = "PATCH"
       /\ calls[c].request.path = <<"drafts", calls[c].args.fields["draft_id"]>>
       /\ calls[c].request.hasBody
       /\ DOMAIN calls[c].request.body = DOMAIN calls[c].args.fields \ {"draft_id"}
       /\ BodyFromInput(c)
  /\ \A c \in DraftCalls("delete_draft") :
       /\ calls[c].request.method = "DELETE"
       /\ calls[c].request.path = <<"drafts", calls[c].args.fields["draft_id"]>>
       /\ calls[c].request.hasBody
       /\ DOMAIN calls[c].request.body = {"version"}
       /\ BodyFromInput(c)
  /\ \A c \in Requested :
       calls[c].name \in {"edit_draft", "delete_draft"} =>
         /\ "draft_id" \notin DOMAIN calls[c].request.body
         /\ calls[c].request.query = EmptyObject

\* edit_draft has been requested with a version and one further field.
C17_Witness ==
  \E c \in DraftCalls("edit_draft") :
     /\ Cardinality(DOMAIN calls[c].request.body) = 2
     /\ calls[c].request.body["version"] = "version_1"

\* The tool calls waiting for their request's answer in a live process.
InFlight ==
  {c \in ToolCalls : calls[c].pc = "awaiting" /\ proc \in {"running", "closing"}}

\* The step leaves every call but c as it is.
OthersUnchanged(c) == \A e \in DOMAIN calls \ {c} : calls'[e] = calls[e]

\* C18: whatever the other calls are doing (waiting for an answer that has
\* not come included), a tool call in flight can take each answer to its own
\* request at once; the step that takes it resolves the call with the
\* wrapping of that answer alone and leaves every other call as it is.
C18_NoBlocking ==
  \A c \in InFlight :
     /\ \A data \in RemoteData :
          ENABLED (/\ HttpSuccess(c, data)
                   /\ calls'[c].pc = "resolved"
                   /\ calls'[c].response = SuccessResponse(data)
                   /\ OthersUnchanged(c))
     /\ \A status \in FailureStatuses, body \in RemoteBodies :
          ENABLED (/\ HttpFailure(c, status, body)
                   /\ calls'[c].pc = "resolved"
                   /\ calls'[c].response = CatchResponse(StatusError(status, body))
                   /\ OthersUnchanged(c))
     /\ \A text \in TransportTexts :
          ENABLED (/\ TransportFailure(c, text)
                   /\ calls'[c].pc = "resolved"
                   /\ calls'[c].response = CatchResponse(TransportError(text))
                   /\ OthersUnchanged(c))

\* One tool call has resolved on the answer to its request while another
\* is still waiting for the answer to its own.
C18_Witness ==
  /\ "c1" \in InFlight
  /\ "c2" \in Succeeded
  /\ calls["c2"].sent = 1
  /\ calls["c2"].response = SuccessResponse(calls["c2"].result)

\* The answered discovery calls.
Discoveries == {c \in DOMAIN calls : calls[c].handler = "discovery" /\ calls[c].pc = "resolved"}

\* C19: every discovery call, whatever tool calls, resource reads and
\* failures the server holds or has seen, answers with the descriptors of
\* the handler's array in the handler's order, so any two discovery calls
\* answer alike; a discovery call makes no outbound request.
C19_StableCatalog ==
  /\ \A c \in Discoveries :
       /\ calls[c].response.tools = Catalog
       /\ calls[c].sent = 0
       /\ calls[c].request = NoRequest
  /\ \A c \in Discoveries, d \in Discoveries : calls[c].response = calls[d].response

\* A discovery call has been answered while a failed call of a known
\* operation is held.
C19_Witness ==
  /\ "c2" \in Discoveries
  /\ calls["c1"].handler = "tool"
  /\ calls["c1"].name \in Names
  /\ calls["c1"].pc = "resolved"
  /\ calls["c1"].error.raised

\* C20: no two descriptors of a discovery answer have the same name.
C20_DistinctNames ==
  \A c \in Discoveries :
     \A i \in DOMAIN calls[c].response.tools, j \in DOMAIN calls[c].response.tools :
        calls[c].response.tools[i].name = calls[c].response.tools[j].name => i = j

\* A discovery call has been answered with more than one descriptor.
C20_Witness ==
  \E c \in Discoveries : Len(calls[c].response.tools) > 1

\* The operation and the fixed input each shortcut resource stands for.
ShortcutOf ==
     "frontapp://conversations/recent" :>
        [name |-> "list_conversations",
         args |-> [present |-> TRUE, fields |-> [k \in {"limit"} |-> "20"]]]
  @@ "frontapp://teammates" :> [name |-> "list_teammates", args |-> NoArguments]
  @@ "frontapp://inboxes"   :> [name |-> "list_inboxes", args |-> NoArguments]
  @@ "frontapp://tags"      :> [name |-> "list_tags", args |-> NoArguments]

\* The answered resource discovery calls.
ResourceListings ==
  {c \in DOMAIN calls : calls[c].handler = "resources" /\ calls[c].pc = "resolved"}

\* C21: every uri a resource discovery lists stands for a catalog operation
\* and is accepted by the read handler, and a read of a listed uri makes the
\* one request the adapter of that operation makes for the fixed input
\* (list_conversations with limit 20; list_teammates, list_inboxes and
\* list_tags with no arguments).
C21_ShortcutsPreBound ==
  /\ \A c \in ResourceListings :
       \A i \in DOMAIN calls[c].response.resources :
          LET uri == calls[c].response.resources[i]
          IN  /\ uri \in DOMAIN ShortcutOf
              /\ ShortcutOf[uri].name \in Names \cap Cases
              /\ ResourceRequest(uri) # NoRequest
  /\ \A c \in ResourceReads :
       calls[c].uri \in DOMAIN ShortcutOf =>
         /\ calls[c].sent = 1
         /\ calls[c].request =
              AdapterRequest(ShortcutOf[calls[c].uri].name, ShortcutOf[calls[c].uri].args)

\* The recent conversations have been read with the limit of 20.
C21_Witness ==
  \E c \in ResourceReads :
     /\ calls[c].uri = "frontapp://conversations/recent"
     /\ calls[c].pc = "resolved"
     /\ calls[c].request.path = <<"conversations">>
     /\ calls[c].request.query["limit"] = "20"

\* C22: without a token the process is never running: it is at its start or
\* has exited with status 1, no handler has served a call and no request has
\* been made.
C22_MissingTokenFatal ==
  apiToken = "" =>
    /\ proc \in {"init", "exited"}
    /\ proc = "exited" => exitCode = 1
    /\ \A c \in DOMAIN calls : calls[c] = Idle

\* The process started without a token has exited with status 1.
C22_Witness ==
  /\ apiToken = ""
  /\ proc = "exited"
  /\ exitCode = 1

\* C23: once the interrupt listener has started closing the server the
\* process eventually exits with status 0, and the process exits with
\* status 0 only from the state in which the close was started.
C23_InterruptExitsCleanly ==
  /\ (proc = "closing") ~> (proc = "exited" /\ exitCode = 0)
  /\ [][(proc # "exited" /\ proc' = "exited" /\ exitCode' = 0) => proc = "closing"]_vars

\* The interrupted process has exited with status 0.
C23_Witness ==
  /\ apiToken # ""
  /\ proc = "exited"
  /\ exitCode = 0

\* The calls held with a failure: an error-flagged tool response or a
\* rejected resource read.
FailedCalls == {c \in DOMAIN calls : calls[c].error.raised}

\* C24: no step of a call (its start, the answer to its request, its
\* failure, its delivery) changes the state of the process or its exit
\* status; the process has status 1 only when it was started without a
\* token; and while the server runs, whatever failed calls it holds, a valid
\* call on a free slot is dispatched to its request.
C24_FailureNotFatal ==
  /\ [][calls' # calls => (proc' = proc /\ exitCode' = exitCode)]_vars
  /\ [](exitCode = 1 => apiToken = "")
  /\ [](\A c \in DOMAIN calls :
          (proc = "running" /\ calls[c].pc = "idle") =>
            ENABLED (/\ CallTool(c, "list_conversations", [present |-> TRUE, fields |-> EmptyObject])
                     /\ calls'[c].pc = "awaiting"
                     /\ calls'[c].sent = 1))

\* The running server holds a resource read rejected on a non-2xx answer
\* (the failure that leaves its handler as an exception) while the other
\* slot is free.
C24_Witness ==
  /\ proc = "running"
  /\ calls["c2"].pc = "idle"
  /\ "c1" \in FailedCalls
  /\ calls["c1"].handler = "resource"
  /\ calls["c1"].error.hasResponse

\* The tool calls of a catalog operation whose input is a mapping.
MappingCalls ==
  {c \in ToolCalls : calls[c].name \in Cases /\ calls[c].args.present}

\* The fields of the input that do not have the declared shape: a required
\* field is missing, a field is not declared, or an enumerated field holds
\* a value outside its set.
Misshapen(c) ==
  \/ ~(Descriptor(calls[c].name).required \subseteq DOMAIN calls[c].args.fields)
  \/ ExtraField \in DOMAIN calls[c].args.fields
  \/ \E f \in DOMAIN calls[c].args.fields : calls[c].args.fields[f] = "other"

\* C25: a tool call of a catalog operation whose input is a mapping, of the
\* declared shape or not, makes its one request with the documented method
\* and is never failed by the handler's own code; each named segment of the
\* path holds the value of an input field, or "undefined" when the field is
\* missing, and each input field that is forwarded under its own name holds
\* the value the input gave it.
C25_NoShapeCheck ==
  \A c \in MappingCalls :
     LET template == DeclaredFor(calls[c].name, calls[c].args).path
         path == calls[c].request.path
     IN  /\ calls[c].sent = 1
         /\ c \notin LocallyFailed
         /\ calls[c].request.method = DeclaredFor(calls[c].name, calls[c].args).method
         /\ Len(path) = Len(template)
         /\ \A i \in DOMAIN template :
              IF template[i][1] = "lit"
                THEN path[i] = template[i][2]
                ELSE \/ path[i] = "undefined"
                     \/ \E f \in DOMAIN calls[c].args.fields : path[i] = calls[c].args.fields[f]
         /\ calls[c].name # "sync_application_message_template" =>
              \A f \in DOMAIN calls[c].args.fields \cap DOMAIN Forwarded(calls[c].request) :
                 Forwarded(calls[c].request)[f] = calls[c].args.fields[f]

\* get_conversation without its conversation_id has requested
\* /conversations/undefined.
C25_Witness ==
  \E c \in MappingCalls :
     /\ Misshapen(c)
     /\ calls[c].name = "get_conversation"
     /\ "conversation_id" \notin DOMAIN calls[c].args.fields
     /\ calls[c].pc = "awaiting"
     /\ calls[c].request.path = <<"conversations", "undefined">>

\* The input fields an operation reads by name: the members its case reads
\* off typedArgs, or the members its adapter's destructuring names.
NamedReads(name) ==
  IF Dispatch[name].whole
    THEN {AdapterOf(name).consumed[i] : i \in DOMAIN AdapterOf(name).consumed}
    ELSE {Dispatch[name].reads[i] : i \in DOMAIN Dispatch[name].reads}

\* The operation forwards its input, or the rest of it, without naming the
\* members: every other field of the input is forwarded.
Spreads(name) ==
  Dispatch[name].whole /\ (AdapterOf(name).payload = "whole" \/ AdapterOf(name).rest)

\* The variables the adapter's request is built from.
UsedVariables(a) ==
  {a.path[i][2] : i \in {j \in DOMAIN a.path : a.path[j][1] \in {"var", "endpoint"}}}
    \cup {a.pick[i][2] : i \in DOMAIN a.pick}
    \cup (IF a.payload = "value" THEN {a.value} ELSE {})

\* The input fields whose value reaches the request through a variable.
UsedFields(name) ==
  IF Dispatch[name].whole
    THEN UsedVariables(AdapterOf(name))
    ELSE {Dispatch[name].reads[i] :
            i \in {j \in DOMAIN Dispatch[name].reads :
                     AdapterOf(name).formals[j] \in UsedVariables(AdapterOf(name))}}

\* C26: for the operation of every tool call, the fields read by name are
\* declared by the descriptor and reach the request, and every declared
\* field is read by name or forwarded with the rest of the input.
C26_ReadsMatchDeclared ==
  \A c \in ToolCalls :
     calls[c].name \in Cases =>
       LET name == calls[c].name
       IN  /\ NamedReads(name) \subseteq Descriptor(name).properties
           /\ NamedReads(name) \subseteq UsedFields(name)
           /\ Spreads(name) \/ Descriptor(name).properties \subseteq NamedReads(name)

\* search_conversations, whose case reads query and limit off typedArgs, has
\* been requested with both.
C26_Witness ==
  \E c \in Requested :
     /\ calls[c].name = "search_conversations"
     /\ NamedReads(calls[c].name) = {"query", "limit"}
     /\ DOMAIN calls[c].args.fields = {"query", "limit"}
     /\ ~Spreads(calls[c].name)

\* C27: the request of a tool call that uses GET has no body, so what it
\* forwards is in the query parameters; the request of a tool call that uses
\* POST, PATCH, PUT or DELETE has no query parameter, so what it forwards is
\* in the body.
C27_PlacementByMethod ==
  \A c \in Requested :
     /\ calls[c].request.method \in {"GET", "POST", "PATCH", "PUT", "DELETE"}
     /\ calls[c].request.method = "GET" =>
          /\ ~calls[c].request.hasBody
          /\ calls[c].request.body = EmptyObject
     /\ calls[c].request.method # "GET" =>
          /\ calls[c].request.query = EmptyObject
          /\ calls[c].request.body # EmptyObject => calls[c].request.hasBody

\* A DELETE with a body and no query parameter has been made.
C27_Witness ==
  \E c \in Requested :
     /\ calls[c].request.method = "DELETE"
     /\ calls[c].request.body # EmptyObject
     /\ calls[c].request.query = EmptyObject

\* The resolved tool calls that the default case of the switch failed.
Undispatched ==
  {c \in ToolCalls : /\ calls[c].pc = "resolved"
                     /\ calls[c].error.raised
                     /\ calls[c].error.message = "Unknown tool: " \o calls[c].name}

\* C28: the names a discovery answers with are the labels of the switch,
\* and a tool call is failed as unknown exactly when its name is not a name
\* of the catalog.
C28_DispatchMatchesDiscovery ==
  /\ \A c \in Discoveries :
       {calls[c].response.tools[i].name : i \in DOMAIN calls[c].response.tools} = Cases
  /\ \A c \in ToolCalls :
       calls[c].pc = "resolved" => (c \in Undispatched <=> calls[c].name \notin Names)

\* A call of a catalog operation has resolved on the answer to its request.
C28_Witness ==
  \E c \in Succeeded :
     /\ calls[c].name = "list_tags"
     /\ calls[c].sent = 1
     /\ c \notin Undispatched

\* The tool calls of reply_to_conversation whose input is a mapping.
ReplyCalls == {c \in MappingCalls : calls[c].name = "reply_to_conversation"}

\* The input names the type comment.
IsComment(c) ==
  "type" \in DOMAIN calls[c].args.fields /\ calls[c].args.fields["type"] = "comment"

\* C29: a call of reply_to_conversation posts to the comments of the
\* conversation exactly when its type is "comment"; with any other type, a
\* missing one and one outside the declared set included, it posts to the
\* messages of the conversation, and the handler's own code never fails it.
C29_CommentOnlyWhenComment ==
  \A c \in ReplyCalls :
     /\ calls[c].sent = 1
     /\ c \notin LocallyFailed
     /\ calls[c].request.method = "POST"
     /\ Len(calls[c].request.path) = 3
     /\ calls[c].request.path[1] = "conversations"
     /\ "conversation_id" \in DOMAIN calls[c].args.fields =>
          calls[c].request.path[2] = calls[c].args.fields["conversation_id"]
     /\ calls[c].request.path[3] = IF IsComment(c) THEN "comments" ELSE "messages"

\* A reply whose type is outside the declared set has been posted to the
\* messages and has succeeded.
C29_Witness ==
  \E c \in ReplyCalls \cap Succeeded :
     /\ "type" \in DOMAIN calls[c].args.fields
     /\ calls[c].args.fields["type"] \notin {"comment", "reply"}
     /\ calls[c].request.path[3] = "messages"

\* The tool calls of a catalog operation that carry no arguments object.
BareCalls == {c \in ToolCalls : calls[c].name \in Cases /\ ~calls[c].args.present}

\* C30: a tool call of a catalog operation without an arguments object never
\* leaves the handler as an exception; when the operation reads a field by
\* name the call is resolved at once with an error-flagged response and no
\* request, and otherwise (the arguments are forwarded whole, or not used)
\* it makes one request without query parameters and without body fields.
C30_NoArgumentsObject ==
  \A c \in BareCalls :
     /\ calls[c].pc # "threw"
     /\ NamedReads(calls[c].name) # {} =>
          /\ calls[c].pc = "resolved"
          /\ calls[c].sent = 0
          /\ "isError" \in DOMAIN calls[c].response
          /\ calls[c].response.isError
     /\ NamedReads(calls[c].name) = {} =>
          /\ calls[c].sent = 1
          /\ calls[c].request.query = EmptyObject
          /\ calls[c].request.body = EmptyObject

\* list_conversations without an arguments object has succeeded on its one
\* request, which had no query parameter.
C30_Witness ==
  \E c \in BareCalls \cap Succeeded :
     /\ calls[c].name = "list_conversations"
     /\ calls[c].sent = 1
     /\ calls[c].request.path = <<"conversations">>
     /\ calls[c].request.query = EmptyObject

====
